---- MODULE Spec2Model ----
(***************************************************************************)
(* Model of fastmcp_extensions: the configuration resolver of server.py    *)
(* (MCPServerConfigArg, MCPServerConfig.resolve_config,                    *)
(* _get_header_value, _resolve_config_arg) and the per-request tool filter *)
(* of middleware.py (ToolFilterMiddleware.on_list_tools / on_call_tool).   *)
(*                                                                         *)
(* Strings that the code only stores and compares are TLA+ strings.        *)
(* Header names are sequences of one-character strings, because the code   *)
(* lower-cases them character by character (str.lower).  An optional value *)
(* (X | None) is a record [some, val].                                     *)
(***************************************************************************)
EXTENDS Integers, Sequences, FiniteSets, TLC

VARIABLES
    config_args,      \* MCPServerConfig.config_args: sequence of MCPServerConfigArg
    environ,          \* os.environ: variable name -> optional string
    tool_manager,     \* app._tool_manager: optional [_tools: sequence of FastTool]
    mounted_tools,    \* tools the downstream handler lists besides the app's own
    tool_filter,      \* ToolFilterMiddleware._tool_filter (which filter function)
    request,          \* the request being served, with what get_http_headers() returns
    result,           \* outcome of the last operation
    calls,            \* the _resolve_config_arg calls in flight, each with its locals
    last_mode,        \* history: the readonly mode the last completed request had
    git_cache,        \* the lru_cache of _get_git_sha: empty, or the value it holds
    git_runs,         \* history: how often `git rev-parse` was run in this process
    server_proc,      \* the server a test helper started (subprocess or thread)
    test_run,         \* the test helper that is running: where it is, what it did
    registered_tools, \* decorators._REGISTERED_TOOLS: (func, annotations) in decoration order
    app_tools,        \* the app.tool(...) calls made on the app, in order
    server_config     \* MCPServerConfig besides config_args, with the dict objects that
                      \* advertised_properties and the caller of mcp_server refer to

\* the part of the state outside a served request
process_vars == <<git_cache, git_runs, server_proc, test_run, registered_tools, app_tools,
                  server_config>>

vars == <<config_args, environ, tool_manager, mounted_tools, tool_filter, request, result,
          calls, last_mode, process_vars>>

\* nothing of it has been used yet
ProcessIdle ==
    /\ git_cache = [filled |-> FALSE, val |-> [some |-> FALSE, val |-> ""]]
    /\ git_runs = 0
    /\ server_proc = [state |-> "none"]
    /\ test_run = [pc |-> "none"]
    /\ registered_tools = <<>>
    /\ app_tools = <<>>
    /\ server_config = [built |-> FALSE]

----------------------------------------------------------------------------
(* Optional values *)

Some(v) == [some |-> TRUE, val |-> v]
NoStr == [some |-> FALSE, val |-> ""]
NoName == [some |-> FALSE, val |-> <<>>]

----------------------------------------------------------------------------
(* Bounds *)

\* largest number of entries in the dict returned by get_http_headers()
MaxHeaders == 2

\* largest number of tools the downstream handler lists
MaxTools == 3

\* how many runs of `git rev-parse` in one process are followed
MaxGitRuns == 2

----------------------------------------------------------------------------
(* Header names and str.lower *)

UpperChars == <<"X", "K", "O">>
LowerChars == <<"x", "k", "o">>

\* str.lower on one character
LowerChar(c) ==
    IF \E i \in 1..Len(UpperChars) : UpperChars[i] = c
    THEN LowerChars[CHOOSE i \in 1..Len(UpperChars) : UpperChars[i] = c]
    ELSE c

\* str.lower
Lower(s) == [i \in 1..Len(s) |-> LowerChar(s[i])]

\* the header key configured on the config arg ("X-Key"), and incoming names
HeaderKey == <<"X", "-", "K", "e">>
HeaderNames == {<<"X", "-", "K", "e">>, <<"x", "-", "k", "e">>, <<"X", "-", "O">>}

\* raw values a header or an environment variable can carry
RawValues == {"", "0", "1"}
NonEmptyRaw == RawValues \ {""}

EnvVarName == "API_KEY"
EnvVarNames == {EnvVarName}

\* dicts of headers in insertion order: sequences of (name, value) with distinct names
\* (the header that no config arg reads carries one value only)
OtherHeader == <<"X", "-", "O">>
HeaderEntries == {e \in [name : HeaderNames, value : RawValues] :
                    e.name = OtherHeader => e.value = "1"}

RECURSIVE HeaderDictsOfLen(_)
HeaderDictsOfLen(n) ==
    IF n = 0 THEN {<<>>}
    ELSE {Append(h, e) : h \in HeaderDictsOfLen(n - 1), e \in HeaderEntries}

DistinctNames(h) == \A i, j \in 1..Len(h) : i # j => h[i].name # h[j].name

HeaderDicts ==
    {h \in UNION {HeaderDictsOfLen(n) : n \in 0..MaxHeaders} : DistinctNames(h)}

----------------------------------------------------------------------------
(* MCPServerConfigArg *)

\* what a normalize_fn does with one raw value: a value, None, or an exception
NormValue(v) == [tag |-> "value", val |-> v]
NormNone == [tag |-> "none", val |-> ""]
NormRaise == [tag |-> "raise", val |-> ""]
NormalizedValues == {"", "tok"}
NormalizeResults == {NormValue(v) : v \in NormalizedValues} \cup {NormNone, NormRaise}

\* normalize_fn: None, or any function of the raw value (it is only ever
\* called on non-empty values)
NormalizeFns ==
    {[some |-> FALSE, val |-> [v \in NonEmptyRaw |-> NormNone]]}
    \cup {Some(f) : f \in [NonEmptyRaw -> NormalizeResults]}

\* default: None, a literal string, or a zero-argument callable
NoDefault == [kind |-> "none", val |-> ""]
LiteralDefault(v) == [kind |-> "literal", val |-> v]
CallableDefault == [kind |-> "callable", val |-> ""]
DefaultValues == {"", "1"}
Defaults == {NoDefault, CallableDefault} \cup {LiteralDefault(v) : v \in DefaultValues}

\* what a callable default returns when called
ProducedValues == {"", "0"}

MCPServerConfigArg ==
    [name : {"api_key"},
     http_header_key : {NoName, Some(HeaderKey)},
     env_var : {NoStr, Some(EnvVarName)},
     default : Defaults,
     required : BOOLEAN,
     normalize_fn : NormalizeFns]

ConfigNames == {"api_key", "nonexistent"}

\* MCPServerConfig.__post_init__: {arg.name: arg for arg in config_args}
\* (a later entry with the same name replaces an earlier one)
PostInit(args) ==
    [n \in {args[i].name : i \in 1..Len(args)} |->
        args[CHOOSE i \in 1..Len(args) :
                /\ args[i].name = n
                /\ \A j \in 1..Len(args) : args[j].name = n => j <= i]]

----------------------------------------------------------------------------
(* Outcomes of a resolution: a returned string or a raised exception,      *)
(* together with the sources the call consulted, in order.                 *)

Return(v, tr) == [kind |-> "return", value |-> v, trace |-> tr]
Raise(e, tr) == [kind |-> e, value |-> "", trace |-> tr]
\* an exception raised with a message
RaiseMsg(e, msg, tr) == [kind |-> e, value |-> msg, trace |-> tr]

RECURSIVE Str(_)
\* the str a sequence of characters stands for
Str(s) == IF s = <<>> THEN "" ELSE s[1] \o Str(Tail(s))

RECURSIVE Join(_, _)
\* sep.join(parts)
Join(parts, sep) ==
    IF parts = <<>> THEN ""
    ELSE IF Len(parts) = 1 THEN parts[1]
    ELSE parts[1] \o sep \o Join(Tail(parts), sep)

----------------------------------------------------------------------------
(* server.py: the resolver *)

\* Python truthiness of an optional name / string (None and "" are falsy)
TruthyName(o) == o.some /\ o.val # <<>>
TruthyStr(o) == o.some /\ o.val # ""

SetMin(S) == CHOOSE i \in S : \A j \in S : i <= j

\* faulty variant: names compared as they are, without lower-casing
_get_header_value_exact(headers, header_name) ==
    LET hits == {i \in 1..Len(headers) : headers[i].name = header_name}
    IN  IF hits = {} THEN NoStr ELSE Some(headers[SetMin(hits)].value)

\* faulty variant: the last matching entry wins
_get_header_value_last(headers, header_name) ==
    LET header_name_lower == Lower(header_name)
        hits == {i \in 1..Len(headers) : Lower(headers[i].name) = header_name_lower}
    IN  IF hits = {} THEN NoStr
        ELSE Some(headers[CHOOSE i \in hits : \A j \in hits : j <= i].value)

\* _get_header_value: the first entry whose lower-cased name equals the
\* lower-cased header_name, else None
_get_header_value(headers, header_name) ==
    LET header_name_lower == Lower(header_name)
        hits == {i \in 1..Len(headers) : Lower(headers[i].name) = header_name_lower}
    IN  IF hits = {} THEN NoStr ELSE Some(headers[SetMin(hits)].value)

\* _resolve_config_arg._apply_normalize
_apply_normalize(config_arg, value) ==
    IF config_arg.normalize_fn.some
    THEN config_arg.normalize_fn.val[value]
    ELSE NormValue(value)

\* the events _apply_normalize adds to the trace for a value read from `source`
NormalizeTrace(config_arg, source) ==
    IF config_arg.normalize_fn.some THEN <<"normalize_fn(" \o source \o ")">> ELSE <<>>

\* faulty variant: a value vetoed by normalize_fn is used raw (`normalized or header_value`)
HeaderSource_veto_keeps_raw(config_arg, headers) ==
    IF ~TruthyName(config_arg.http_header_key)
    THEN [out |-> NormNone, trace |-> <<>>]
    ELSE IF headers = <<>>
    THEN [out |-> NormNone, trace |-> <<"get_http_headers">>]
    ELSE LET header_value == _get_header_value(headers, config_arg.http_header_key.val)
             n == _apply_normalize(config_arg, header_value.val)
         IN  IF ~TruthyStr(header_value)
             THEN [out |-> NormNone, trace |-> <<"get_http_headers">>]
             ELSE [out |-> IF n.tag = "none" THEN NormValue(header_value.val) ELSE n,
                   trace |-> <<"get_http_headers">> \o NormalizeTrace(config_arg, "header")]

\* faulty variant: `if header_value is not None` instead of `if header_value`
HeaderSource_accepts_empty(config_arg, headers) ==
    IF ~TruthyName(config_arg.http_header_key)
    THEN [out |-> NormNone, trace |-> <<>>]
    ELSE IF headers = <<>>
    THEN [out |-> NormNone, trace |-> <<"get_http_headers">>]
    ELSE LET header_value == _get_header_value(headers, config_arg.http_header_key.val)
         IN  IF ~header_value.some
             THEN [out |-> NormNone, trace |-> <<"get_http_headers">>]
             ELSE IF header_value.val = ""
             THEN [out |-> NormValue(""), trace |-> <<"get_http_headers">>]
             ELSE [out |-> _apply_normalize(config_arg, header_value.val),
                   trace |-> <<"get_http_headers">> \o NormalizeTrace(config_arg, "header")]

\* the header step of _resolve_config_arg: what the header source yields
\* (a value, None to go on, or normalize_fn's exception) and what it consulted
HeaderSource(config_arg, headers) ==
    IF ~TruthyName(config_arg.http_header_key)
    THEN [out |-> NormNone, trace |-> <<>>]
    ELSE IF headers = <<>>
    THEN [out |-> NormNone, trace |-> <<"get_http_headers">>]
    ELSE LET header_value == _get_header_value(headers, config_arg.http_header_key.val)
         IN  IF ~TruthyStr(header_value)
             THEN [out |-> NormNone, trace |-> <<"get_http_headers">>]
             ELSE [out |-> _apply_normalize(config_arg, header_value.val),
                   trace |-> <<"get_http_headers">> \o NormalizeTrace(config_arg, "header")]

\* the environment step of _resolve_config_arg
EnvSource(config_arg, env) ==
    IF ~TruthyStr(config_arg.env_var)
    THEN [out |-> NormNone, trace |-> <<>>]
    ELSE LET env_value == env[config_arg.env_var.val]
         IN  IF ~TruthyStr(env_value)
             THEN [out |-> NormNone, trace |-> <<"environ.get">>]
             ELSE [out |-> _apply_normalize(config_arg, env_value.val),
                   trace |-> <<"environ.get">> \o NormalizeTrace(config_arg, "env")]

\* faulty variant: the message lists a header and an environment variable
\* whether or not the config arg has them
MissingRequiredMessage_all_sources(config_arg) ==
    "Required config '" \o config_arg.name \o "' not found. Set "
        \o "HTTP header '" \o Str(config_arg.http_header_key.val) \o "'"
        \o " or "
        \o "environment variable '" \o config_arg.env_var.val \o "'"
        \o "."

\* the message of the ValueError raised for a missing required config arg
MissingRequiredMessage(config_arg) ==
    LET sources ==
            (IF TruthyName(config_arg.http_header_key)
             THEN <<"HTTP header '" \o Str(config_arg.http_header_key.val) \o "'">>
             ELSE <<>>)
            \o (IF TruthyStr(config_arg.env_var)
                THEN <<"environment variable '" \o config_arg.env_var.val \o "'">>
                ELSE <<>>)
        source_str == IF sources # <<>> THEN Join(sources, " or ")
                      ELSE "no sources configured"
    IN  "Required config '" \o config_arg.name \o "' not found. Set "
            \o source_str \o "."

\* faulty variant: a missing required value is silently defaulted to ""
DefaultOrMissing_never_raises(config_arg, produced, tr) ==
    IF config_arg.default.kind # "none"
    THEN IF config_arg.default.kind = "callable"
         THEN Return(produced, tr \o <<"default()">>)
         ELSE Return(config_arg.default.val, tr \o <<"default">>)
    ELSE Return("", tr)

\* faulty variant: the default goes through _apply_normalize like the other sources
DefaultOrMissing_normalized(config_arg, produced, tr) ==
    LET d == IF config_arg.default.kind = "callable" THEN produced
             ELSE config_arg.default.val
        n == IF d \in NonEmptyRaw THEN _apply_normalize(config_arg, d) ELSE NormValue(d)
    IN  IF config_arg.default.kind # "none" /\ n.tag = "value"
        THEN Return(n.val, tr \o <<"default">>)
        ELSE IF config_arg.default.kind # "none" /\ n.tag = "raise"
        THEN Raise("NormalizeError", tr)
        ELSE IF config_arg.required
        THEN RaiseMsg("ValueError", MissingRequiredMessage(config_arg), tr)
        ELSE Return("", tr)

\* the tail of _resolve_config_arg: default, then required / optional
DefaultOrMissing(config_arg, produced, tr) ==
    IF config_arg.default.kind # "none"
    THEN IF config_arg.default.kind = "callable"
         THEN Return(produced, tr \o <<"default()">>)
         ELSE Return(config_arg.default.val, tr \o <<"default">>)
    ELSE IF config_arg.required
         THEN RaiseMsg("ValueError", MissingRequiredMessage(config_arg), tr)
         ELSE Return("", tr)

\* faulty variant: the environment is read before the header
_resolve_config_arg_env_first(config_arg, headers, env, produced) ==
    LET e == EnvSource(config_arg, env)
    IN  IF e.out.tag = "value" THEN Return(e.out.val, e.trace)
        ELSE IF e.out.tag = "raise" THEN Raise("NormalizeError", e.trace)
        ELSE LET h == HeaderSource(config_arg, headers)
                 tr == e.trace \o h.trace
             IN  IF h.out.tag = "value" THEN Return(h.out.val, tr)
                 ELSE IF h.out.tag = "raise" THEN Raise("NormalizeError", tr)
                 ELSE DefaultOrMissing(config_arg, produced, tr)

\* faulty variant: a configured default wins over the environment
_resolve_config_arg_default_first(config_arg, headers, env, produced) ==
    LET h == HeaderSource(config_arg, headers)
    IN  IF h.out.tag = "value" THEN Return(h.out.val, h.trace)
        ELSE IF h.out.tag = "raise" THEN Raise("NormalizeError", h.trace)
        ELSE IF config_arg.default.kind # "none"
        THEN DefaultOrMissing(config_arg, produced, h.trace)
        ELSE LET e == EnvSource(config_arg, env)
                 tr == h.trace \o e.trace
             IN  IF e.out.tag = "value" THEN Return(e.out.val, tr)
                 ELSE IF e.out.tag = "raise" THEN Raise("NormalizeError", tr)
                 ELSE DefaultOrMissing(config_arg, produced, tr)

\* faulty variant: an exception of normalize_fn is caught and the next source is tried
_resolve_config_arg_swallow_raise(config_arg, headers, env, produced) ==
    LET h == HeaderSource(config_arg, headers)
    IN  IF h.out.tag = "value" THEN Return(h.out.val, h.trace)
        ELSE LET e == EnvSource(config_arg, env)
                 tr == h.trace \o e.trace
             IN  IF e.out.tag = "value" THEN Return(e.out.val, tr)
                 ELSE DefaultOrMissing(config_arg, produced, tr)

\* _resolve_config_arg; `headers` is what get_http_headers() returns (None and
\* {} are both the empty sequence: the code tests `if headers:`), `env` is
\* os.environ, `produced` is what a callable default returns when called
_resolve_config_arg(config_arg, headers, env, produced) ==
    LET h == HeaderSource(config_arg, headers)
    IN  IF h.out.tag = "value" THEN Return(h.out.val, h.trace)
        ELSE IF h.out.tag = "raise" THEN Raise("NormalizeError", h.trace)
        ELSE LET e == EnvSource(config_arg, env)
                 tr == h.trace \o e.trace
             IN  IF e.out.tag = "value" THEN Return(e.out.val, tr)
                 ELSE IF e.out.tag = "raise" THEN Raise("NormalizeError", tr)
                 ELSE DefaultOrMissing(config_arg, produced, tr)

\* faulty variant: an unknown name resolves to "" (dict.get) instead of raising
MCPServerConfig_resolve_config_lenient(by_name, name, headers, env, produced) ==
    IF name \notin DOMAIN by_name
    THEN Return("", <<>>)
    ELSE _resolve_config_arg(by_name[name], headers, env, produced)

\* MCPServerConfig.resolve_config
MCPServerConfig_resolve_config(by_name, name, headers, env, produced) ==
    IF name \notin DOMAIN by_name
    THEN Raise("KeyError", <<>>)
    ELSE _resolve_config_arg(by_name[name], headers, env, produced)

\* resolve_config(app, name): app.x_mcp_server_config.resolve_config(name)
resolve_config(args, name, headers, env, produced) ==
    MCPServerConfig_resolve_config(PostInit(args), name, headers, env, produced)

----------------------------------------------------------------------------
(* The resolver as a state machine: a server built by mcp_server() with    *)
(* one config arg, serving resolve_config calls.                           *)

NoRequest == [op |-> "none", name |-> "", headers |-> <<>>, produced |-> ""]
NoResult == [kind |-> "none", value |-> "", trace |-> <<>>]

Environments == [EnvVarNames -> {NoStr} \cup {Some(v) : v \in RawValues}]

NoToolManager == [some |-> FALSE, val |-> <<>>]

\* no _resolve_config_arg call is in flight
NoCalls == <<>>

Init ==
    /\ config_args \in {<<a>> : a \in MCPServerConfigArg}
    /\ environ \in Environments
    /\ tool_manager = NoToolManager
    /\ mounted_tools = <<>>
    /\ tool_filter = "none"
    /\ request = NoRequest
    /\ result = NoResult
    /\ calls = NoCalls
    /\ last_mode = NoStr
    /\ ProcessIdle

HasCallableDefault(args) == \E i \in 1..Len(args) : args[i].default.kind = "callable"

\* one call of resolve_config(app, name) while a request with `headers` is served
ResolveConfig ==
    /\ request.op = "none"
    /\ \E name \in ConfigNames, headers \in HeaderDicts,
       produced \in (IF HasCallableDefault(config_args) THEN ProducedValues ELSE {""}) :
        /\ request' = [op |-> "resolve_config", name |-> name,
                       headers |-> headers, produced |-> produced]
        /\ result' = resolve_config(config_args, name, headers, environ, produced)
        /\ UNCHANGED <<config_args, environ, tool_manager, mounted_tools, tool_filter,
                   calls, last_mode, process_vars>>

\* the request completes: its context and its outcome are discarded
EndRequest ==
    /\ request.op # "none"
    /\ request' = NoRequest
    /\ result' = NoResult
    /\ UNCHANGED <<config_args, environ, tool_manager, mounted_tools, tool_filter,
                   calls, last_mode, process_vars>>

Next == ResolveConfig \/ EndRequest

Spec == Init /\ [][Next]_vars

----------------------------------------------------------------------------
(* Servers built from any list of config args: mcp_server() takes the list *)
(* as it is given and __post_init__ indexes it by name.                    *)

\* config args that read the environment or a default, under two names
PlainArgs ==
    {a \in MCPServerConfigArg :
        /\ ~a.http_header_key.some
        /\ ~a.normalize_fn.some
        /\ a.required
        /\ a.default \in {NoDefault, LiteralDefault("1")}}
NamedArgs == {[a EXCEPT !.name = n] : a \in PlainArgs, n \in {"api_key", "region"}}

\* the lists given as server_config_args: none, one or two entries
ConfigArgLists ==
    {<<>>} \cup {<<a>> : a \in NamedArgs} \cup {<<a, b>> : a \in NamedArgs, b \in NamedArgs}

ConfigSetInit ==
    /\ config_args \in ConfigArgLists
    /\ environ \in Environments
    /\ tool_manager = NoToolManager
    /\ mounted_tools = <<>>
    /\ tool_filter = "none"
    /\ request = NoRequest
    /\ result = NoResult
    /\ calls = NoCalls
    /\ last_mode = NoStr
    /\ ProcessIdle

ConfigSetSpec == ConfigSetInit /\ [][Next]_vars

----------------------------------------------------------------------------
(* Concurrent requests: every request served at the same time calls        *)
(* resolve_config in its own context.  _resolve_config_arg is followed     *)
(* statement by statement, with its locals kept per call, and the calls    *)
(* interleave in any order.                                                *)

CallIds == {"a", "b"}

IdleCall == [pc |-> "idle", name |-> "", headers |-> <<>>, produced |-> "",
             trace |-> <<>>, result |-> NoResult]

\* the headers the concurrent requests carry
ConcHeaderDicts ==
    {<<>>} \cup {<<[name |-> n, value |-> v]>> : n \in {HeaderKey, Lower(HeaderKey)},
                                                  v \in RawValues}

\* normalize_fn of the concurrently served server: none, or one that vetoes "0"
VetoZero == [v \in NonEmptyRaw |-> IF v = "0" THEN NormNone ELSE NormValue("tok")]
ConcArgs ==
    {a \in MCPServerConfigArg :
        /\ a.required
        /\ a.default \in {NoDefault, CallableDefault, LiteralDefault("1")}
        /\ a.normalize_fn.some => a.normalize_fn.val = VetoZero}

ConcInit ==
    /\ config_args \in {<<a>> : a \in ConcArgs}
    /\ environ \in Environments
    /\ tool_manager = NoToolManager
    /\ mounted_tools = <<>>
    /\ tool_filter = "none"
    /\ request = NoRequest
    /\ result = NoResult
    /\ calls = [c \in CallIds |-> IdleCall]
    /\ last_mode = NoStr
    /\ ProcessIdle

\* faulty variant: the headers are kept in one place that every request
\* overwrites, so a call reads those of the other request once it has arrived
CurrentHeaders_shared(cs, c) ==
    IF \E d \in CallIds \ {c} : cs[d].pc # "idle"
    THEN cs[CHOOSE d \in CallIds \ {c} : cs[d].pc # "idle"].headers
    ELSE cs[c].headers

\* get_http_headers(): the headers of the request in whose context call c runs
CurrentHeaders(cs, c) == cs[c].headers

\* the config arg call c resolves
CallArg(c) == PostInit(config_args)[calls[c].name]

\* call c has its outcome
Finish(c, outcome) ==
    calls' = [calls EXCEPT ![c].pc = "done", ![c].result = outcome]

\* call c goes on to the next source with what it has consulted so far
GoOn(c, pc, tr) ==
    calls' = [calls EXCEPT ![c].pc = pc, ![c].trace = tr]

ConcFrame == UNCHANGED <<config_args, tool_manager, mounted_tools, tool_filter,
                         request, result, last_mode, process_vars>>

\* a request arrives and calls resolve_config(ctx, name):
\* MCPServerConfig.resolve_config looks the name up
Begin(c) ==
    /\ calls[c].pc = "idle"
    /\ \E name \in ConfigNames, headers \in ConcHeaderDicts,
          produced \in (IF HasCallableDefault(config_args) THEN ProducedValues ELSE {""}) :
        calls' = [calls EXCEPT
                    ![c] = IF name \notin DOMAIN PostInit(config_args)
                           THEN [IdleCall EXCEPT !.pc = "done", !.name = name,
                                                 !.headers = headers,
                                                 !.result = Raise("KeyError", <<>>)]
                           ELSE [IdleCall EXCEPT !.pc = "header", !.name = name,
                                                 !.headers = headers,
                                                 !.produced = produced]]
    /\ UNCHANGED environ
    /\ ConcFrame

\* the header step of call c
HeaderStep(c) ==
    /\ calls[c].pc = "header"
    /\ LET h == HeaderSource(CallArg(c), CurrentHeaders(calls, c))
       IN  IF h.out.tag = "value" THEN Finish(c, Return(h.out.val, h.trace))
           ELSE IF h.out.tag = "raise" THEN Finish(c, Raise("NormalizeError", h.trace))
           ELSE GoOn(c, "env", h.trace)
    /\ UNCHANGED environ
    /\ ConcFrame

\* faulty variant: the variable is taken out of the environment when it is read
\* (os.environ.pop instead of os.environ.get)
EnvStep_pop(c) ==
    /\ calls[c].pc = "env"
    /\ LET e == EnvSource(CallArg(c), environ)
           tr == calls[c].trace \o e.trace
       IN  IF e.out.tag = "value" THEN Finish(c, Return(e.out.val, tr))
           ELSE IF e.out.tag = "raise" THEN Finish(c, Raise("NormalizeError", tr))
           ELSE GoOn(c, "default", tr)
    /\ environ' = IF CallArg(c).env_var.some
                  THEN [environ EXCEPT ![CallArg(c).env_var.val] = NoStr]
                  ELSE environ
    /\ ConcFrame

\* the environment step of call c
EnvStep(c) ==
    /\ calls[c].pc = "env"
    /\ LET e == EnvSource(CallArg(c), environ)
           tr == calls[c].trace \o e.trace
       IN  IF e.out.tag = "value" THEN Finish(c, Return(e.out.val, tr))
           ELSE IF e.out.tag = "raise" THEN Finish(c, Raise("NormalizeError", tr))
           ELSE GoOn(c, "default", tr)
    /\ UNCHANGED environ
    /\ ConcFrame

\* the default step of call c, and the required / optional ending
DefaultStep(c) ==
    /\ calls[c].pc = "default"
    /\ Finish(c, DefaultOrMissing(CallArg(c), calls[c].produced, calls[c].trace))
    /\ UNCHANGED environ
    /\ ConcFrame

ConcNext == \E c \in CallIds : Begin(c) \/ HeaderStep(c) \/ EnvStep(c) \/ DefaultStep(c)

ConcSpec == ConcInit /\ [][ConcNext]_vars

----------------------------------------------------------------------------
(* middleware.py: ToolFilterMiddleware *)

\* a tool's annotations: None, or ToolAnnotations with readOnlyHint True,
\* False or None (unset)
NoAnnotations == [some |-> FALSE, val |-> [readOnlyHint |-> "None"]]
Annotations == {NoAnnotations} \cup {Some([readOnlyHint |-> h]) : h \in {"True", "False", "None"}}

ToolNames == {"read_tool", "write_tool"}
CallNames == ToolNames \cup {"unknown_tool"}

\* mcp.types.Tool as the filter sees it, and the FastTool the tool manager holds
Tool == [name : ToolNames, annotations : Annotations]
FastTool == [key : ToolNames, name : ToolNames, annotations : Annotations, fn : {"fn"}]

\* FastTool.to_mcp_tool(): the MCP view of a registered tool
to_mcp_tool(fast_tool) ==
    [name |-> fast_tool.name, annotations |-> fast_tool.annotations]

\* the config arg the filter reads (the README / docstring configuration:
\* header, environment variable, default "0")
ReadonlyModeArg ==
    [name |-> "readonly_mode",
     http_header_key |-> Some(HeaderKey),
     env_var |-> Some(EnvVarName),
     default |-> LiteralDefault("0"),
     required |-> TRUE,
     normalize_fn |-> [some |-> FALSE, val |-> [v \in NonEmptyRaw |-> NormNone]]]

\* get_mcp_config(app, name) under the request being served
get_mcp_config(args, name, headers, env) ==
    resolve_config(args, name, headers, env, "")

\* faulty variant: the mode is resolved once and kept: from the second request
\* on the filter reuses the mode of the request before
readonly_filter_cached(tool, args, headers, env) ==
    LET mode == IF last_mode.some THEN Return(last_mode.val, <<>>)
                ELSE get_mcp_config(args, "readonly_mode", headers, env)
    IN  IF mode.kind # "return" THEN "raise"
        ELSE IF mode.value = "1"
        THEN IF ~tool.annotations.some THEN "False"
             ELSE tool.annotations.val.readOnlyHint
        ELSE "True"

\* readonly_filter of the ToolFilterFn documentation: "True", "False" or
\* "None" as Python returns them, "raise" when get_mcp_config raises
readonly_filter(tool, args, headers, env) ==
    LET mode == get_mcp_config(args, "readonly_mode", headers, env)
    IN  IF mode.kind # "return" THEN "raise"
        ELSE IF mode.value = "1"
        THEN IF ~tool.annotations.some THEN "False"
             ELSE tool.annotations.val.readOnlyHint
        ELSE "True"

\* the flag values the standard filters take for "on"
TruthyTokens == {"1", "true"}

\* a hint of a tool's annotations (None when the tool has no annotations)
Hint(tool, hint) == IF tool.annotations.some THEN tool.annotations.val[hint] ELSE "None"

\* readonly_mode_filter: with readonly_mode on, only tools whose readOnlyHint
\* is True are visible
readonly_mode_filter(tool, args, headers, env) ==
    LET mode == get_mcp_config(args, "readonly_mode", headers, env)
    IN  IF mode.kind # "return" THEN "raise"
        ELSE IF mode.value \in TruthyTokens
        THEN IF Hint(tool, "readOnlyHint") = "True" THEN "True" ELSE "False"
        ELSE "True"

\* faulty variant: a tool that declares no destructiveHint counts as destructive
no_destructive_tools_filter_strict(tool, args, headers, env) ==
    LET flag == get_mcp_config(args, "no_destructive_tools", headers, env)
    IN  IF flag.kind # "return" THEN "raise"
        ELSE IF flag.value \in TruthyTokens
        THEN IF Hint(tool, "destructiveHint") = "False" THEN "True" ELSE "False"
        ELSE "True"

\* no_destructive_tools_filter: with no_destructive_tools on, tools whose
\* destructiveHint is True are hidden
no_destructive_tools_filter(tool, args, headers, env) ==
    LET flag == get_mcp_config(args, "no_destructive_tools", headers, env)
    IN  IF flag.kind # "return" THEN "raise"
        ELSE IF flag.value \in TruthyTokens
        THEN IF Hint(tool, "destructiveHint") = "True" THEN "False" ELSE "True"
        ELSE "True"

\* self._tool_filter(tool, self._app)
ApplyFilter(filter, tool, args, headers, env) ==
    IF filter = "readonly_filter" THEN readonly_filter(tool, args, headers, env)
    ELSE IF filter = "readonly_mode_filter"
    THEN readonly_mode_filter(tool, args, headers, env)
    ELSE IF filter = "no_destructive_tools_filter"
    THEN no_destructive_tools_filter(tool, args, headers, env)
    ELSE "True"

\* Python truthiness of what a filter returns
FilterTruthy(r) == r = "True"

\* what call_next returns for a list request: the app's own tools in
\* registration order, then the tools of mounted / proxied sources
DownstreamTools(manager, mounted) ==
    (IF manager.some
     THEN [i \in 1..Len(manager.val) |-> to_mcp_tool(manager.val[i])]
     ELSE <<>>) \o mounted

\* faulty variant: the visible tools come back in reverse order
on_list_tools_reversed(filter, manager, mounted, args, headers, env) ==
    LET tools == DownstreamTools(manager, mounted)
        verdict(t) == ApplyFilter(filter, t, args, headers, env)
        kept == SelectSeq(tools, LAMBDA t : FilterTruthy(verdict(t)))
    IN  IF \E i \in 1..Len(tools) : verdict(tools[i]) = "raise"
        THEN [kind |-> "FilterError", tools |-> <<>>, trace |-> <<"call_next", "filter">>]
        ELSE [kind |-> "return",
              tools |-> [i \in 1..Len(kept) |-> kept[Len(kept) + 1 - i]],
              trace |-> <<"call_next", "filter">>]

\* ToolFilterMiddleware.on_list_tools
on_list_tools(filter, manager, mounted, args, headers, env) ==
    LET tools == DownstreamTools(manager, mounted)
        verdict(t) == ApplyFilter(filter, t, args, headers, env)
    IN  IF \E i \in 1..Len(tools) : verdict(tools[i]) = "raise"
        THEN [kind |-> "FilterError", tools |-> <<>>, trace |-> <<"call_next", "filter">>]
        ELSE [kind |-> "return",
              tools |-> SelectSeq(tools, LAMBDA t : FilterTruthy(verdict(t))),
              trace |-> <<"call_next", "filter">>]

\* ToolFilterMiddleware._get_tool_by_name
_get_tool_by_name(manager, name) ==
    IF ~manager.some THEN [some |-> FALSE, val |-> <<>>]
    ELSE LET hits == {i \in 1..Len(manager.val) : manager.val[i].key = name}
         IN  IF hits = {} THEN [some |-> FALSE, val |-> <<>>]
             ELSE Some(to_mcp_tool(manager.val[SetMin(hits)]))

\* the error on_call_tool raises for a filtered tool
UnavailableMessage(tool_name) ==
    "Tool '" \o tool_name \o "' is not available. "
    \o "It may be restricted based on your current session configuration."

\* what call_next does with a call request: run the tool if some source
\* serves it, else the framework's unknown-tool error
DownstreamCall(manager, mounted, tool_name, tr) ==
    LET tools == DownstreamTools(manager, mounted)
    IN  IF \E i \in 1..Len(tools) : tools[i].name = tool_name
        THEN [kind |-> "return", value |-> tool_name, trace |-> tr \o <<"call_next">>]
        ELSE [kind |-> "NotFoundError", value |-> tool_name, trace |-> tr \o <<"call_next">>]

\* faulty variant: the downstream handler is invoked a second time
on_call_tool_twice(filter, manager, mounted, args, headers, env, tool_name) ==
    LET tool == _get_tool_by_name(manager, tool_name)
        verdict == ApplyFilter(filter, tool.val, args, headers, env)
    IN  IF tool.some /\ verdict = "raise"
        THEN [kind |-> "FilterError", value |-> "", trace |-> <<"filter">>]
        ELSE IF tool.some /\ ~FilterTruthy(verdict)
        THEN [kind |-> "ValueError", value |-> UnavailableMessage(tool_name),
              trace |-> <<"filter">>]
        ELSE DownstreamCall(manager, mounted, tool_name,
                            (IF tool.some THEN <<"filter">> ELSE <<>>) \o <<"call_next">>)

\* faulty variant: a name that is not in the app's registry is rejected
on_call_tool_reject_absent(filter, manager, mounted, args, headers, env, tool_name) ==
    LET tool == _get_tool_by_name(manager, tool_name)
        verdict == ApplyFilter(filter, tool.val, args, headers, env)
    IN  IF tool.some /\ verdict = "raise"
        THEN [kind |-> "FilterError", value |-> "", trace |-> <<"filter">>]
        ELSE IF ~tool.some \/ ~FilterTruthy(verdict)
        THEN [kind |-> "ValueError", value |-> UnavailableMessage(tool_name),
              trace |-> IF tool.some THEN <<"filter">> ELSE <<>>]
        ELSE DownstreamCall(manager, mounted, tool_name, <<"filter">>)

\* ToolFilterMiddleware.on_call_tool
on_call_tool(filter, manager, mounted, args, headers, env, tool_name) ==
    LET tool == _get_tool_by_name(manager, tool_name)
        verdict == ApplyFilter(filter, tool.val, args, headers, env)
    IN  IF tool.some /\ verdict = "raise"
        THEN [kind |-> "FilterError", value |-> "", trace |-> <<"filter">>]
        ELSE IF tool.some /\ ~FilterTruthy(verdict)
        THEN [kind |-> "ValueError", value |-> UnavailableMessage(tool_name),
              trace |-> <<"filter">>]
        ELSE DownstreamCall(manager, mounted, tool_name,
                            IF tool.some THEN <<"filter">> ELSE <<>>)

----------------------------------------------------------------------------
(* The middleware as a state machine: an app with the readonly_mode config *)
(* arg and ToolFilterMiddleware(app, tool_filter=readonly_filter), serving *)
(* list-tools and call-tool requests.                                      *)

\* where a tool lives: registered on the app itself, or served by a mounted source
Placements == [ToolNames -> {"absent", "local", "mounted"}]
ToolOrder == <<"read_tool", "write_tool">>

RegisteredTools(place, ann) ==
    LET all == [i \in 1..Len(ToolOrder) |->
                    [key |-> ToolOrder[i], name |-> ToolOrder[i],
                     annotations |-> ann[ToolOrder[i]], fn |-> "fn"]]
    IN  SelectSeq(all, LAMBDA t : place[t.key] = "local")

MountedTools(place, ann) ==
    LET all == [i \in 1..Len(ToolOrder) |->
                    [name |-> ToolOrder[i], annotations |-> ann[ToolOrder[i]]]]
    IN  SelectSeq(all, LAMBDA t : place[t.name] = "mounted")

FilterInit ==
    /\ config_args = <<ReadonlyModeArg>>
    /\ environ \in Environments
    /\ \E place \in Placements, ann \in [ToolNames -> Annotations], has_manager \in BOOLEAN :
        /\ has_manager \/ \A n \in ToolNames : place[n] # "local"
        /\ \A n \in ToolNames : place[n] = "absent" => ann[n] = NoAnnotations
        /\ tool_manager = IF has_manager THEN Some(RegisteredTools(place, ann))
                          ELSE NoToolManager
        /\ mounted_tools = MountedTools(place, ann)
    /\ tool_filter = "readonly_filter"
    /\ request = NoRequest
    /\ result = NoResult
    /\ calls = NoCalls
    /\ last_mode = NoStr
    /\ ProcessIdle

\* a list-tools request passes through the middleware
ListTools ==
    /\ request.op = "none"
    /\ tool_filter # "none"
    /\ \E headers \in HeaderDicts :
        /\ request' = [op |-> "list_tools", name |-> "", headers |-> headers, produced |-> ""]
        /\ result' = on_list_tools(tool_filter, tool_manager, mounted_tools,
                                   config_args, headers, environ)
    /\ UNCHANGED <<config_args, environ, tool_manager, mounted_tools, tool_filter,
                   calls, last_mode, process_vars>>

\* a call-tool request passes through the middleware
CallTool ==
    /\ request.op = "none"
    /\ tool_filter # "none"
    /\ \E headers \in HeaderDicts, tool_name \in CallNames :
        /\ request' = [op |-> "call_tool", name |-> tool_name,
                       headers |-> headers, produced |-> ""]
        /\ result' = on_call_tool(tool_filter, tool_manager, mounted_tools,
                                  config_args, headers, environ, tool_name)
    /\ UNCHANGED <<config_args, environ, tool_manager, mounted_tools, tool_filter,
                   calls, last_mode, process_vars>>

FilterNext == ListTools \/ CallTool \/ EndRequest

FilterSpec == FilterInit /\ [][FilterNext]_vars

----------------------------------------------------------------------------
(* Consecutive requests: the same middleware serves one request after      *)
(* another; last_mode remembers the readonly mode the request before       *)
(* resolved to.                                                            *)

\* the request completes; the mode it had is remembered
EndRequestRemembered ==
    /\ request.op # "none"
    /\ last_mode' = Some(get_mcp_config(config_args, "readonly_mode",
                                        request.headers, environ).value)
    /\ request' = NoRequest
    /\ result' = NoResult
    /\ UNCHANGED <<config_args, environ, tool_manager, mounted_tools, tool_filter, calls,
                   process_vars>>

ConsecutiveNext == ListTools \/ CallTool \/ EndRequestRemembered

ConsecutiveSpec == FilterInit /\ [][ConsecutiveNext]_vars

----------------------------------------------------------------------------
(* The standard filters: an app built with the readonly_mode and the       *)
(* no_destructive_tools config args, and a ToolFilterMiddleware with one   *)
(* of the two standard filters.                                            *)

\* the headers and variables of the two flags (X-MCP-Readonly-Mode,
\* X-No-Destructive-Tools, MCP_READONLY_MODE, MCP_NO_DESTRUCTIVE_TOOLS)
HEADER_READONLY_MODE == HeaderKey
HEADER_NO_DESTRUCTIVE_TOOLS == OtherHeader
ENV_READONLY_MODE == "MCP_READONLY_MODE"
ENV_NO_DESTRUCTIVE_TOOLS == "MCP_NO_DESTRUCTIVE_TOOLS"

\* what a client or an operator writes into a flag
FlagValues == {"0", "1", "true", "True"}

NoNormalize == [some |-> FALSE, val |-> [v \in NonEmptyRaw |-> NormNone]]

READONLY_MODE_CONFIG_ARG ==
    [name |-> "readonly_mode",
     http_header_key |-> Some(HEADER_READONLY_MODE),
     env_var |-> Some(ENV_READONLY_MODE),
     default |-> LiteralDefault("0"),
     required |-> FALSE,
     normalize_fn |-> NoNormalize]

NO_DESTRUCTIVE_TOOLS_CONFIG_ARG ==
    [name |-> "no_destructive_tools",
     http_header_key |-> Some(HEADER_NO_DESTRUCTIVE_TOOLS),
     env_var |-> Some(ENV_NO_DESTRUCTIVE_TOOLS),
     default |-> LiteralDefault("0"),
     required |-> FALSE,
     normalize_fn |-> NoNormalize]

\* annotations with the two hints the standard filters read
HintedNoAnnotations ==
    [some |-> FALSE, val |-> [readOnlyHint |-> "None", destructiveHint |-> "None"]]
HintedAnnotations ==
    {HintedNoAnnotations}
    \cup {Some([readOnlyHint |-> r, destructiveHint |-> d]) :
            r \in {"True", "None"}, d \in {"True", "None"}}
    \cup {Some([readOnlyHint |-> "False", destructiveHint |-> "False"])}

StandardHeaderDicts ==
    {<<>>} \cup {<<[name |-> n, value |-> v]>> :
                    n \in {HEADER_READONLY_MODE, HEADER_NO_DESTRUCTIVE_TOOLS},
                    v \in FlagValues}

StandardEnvironments ==
    [{ENV_READONLY_MODE, ENV_NO_DESTRUCTIVE_TOOLS} -> {NoStr, Some("true")}]

StandardInit ==
    /\ config_args = <<READONLY_MODE_CONFIG_ARG, NO_DESTRUCTIVE_TOOLS_CONFIG_ARG>>
    /\ environ \in StandardEnvironments
    /\ \E place \in [ToolNames -> {"local", "mounted"}],
          ann \in [ToolNames -> HintedAnnotations] :
        /\ tool_manager = Some(RegisteredTools(place, ann))
        /\ mounted_tools = MountedTools(place, ann)
    /\ tool_filter \in {"readonly_mode_filter", "no_destructive_tools_filter"}
    /\ request = NoRequest
    /\ result = NoResult
    /\ calls = NoCalls
    /\ last_mode = NoStr
    /\ ProcessIdle

\* a list-tools request passes through the middleware
StandardListTools ==
    /\ request.op = "none"
    /\ \E headers \in StandardHeaderDicts :
        /\ request' = [op |-> "list_tools", name |-> "", headers |-> headers, produced |-> ""]
        /\ result' = on_list_tools(tool_filter, tool_manager, mounted_tools,
                                   config_args, headers, environ)
    /\ UNCHANGED <<config_args, environ, tool_manager, mounted_tools, tool_filter,
                   calls, last_mode, process_vars>>

\* a call-tool request passes through the middleware
StandardCallTool ==
    /\ request.op = "none"
    /\ \E headers \in StandardHeaderDicts, tool_name \in CallNames :
        /\ request' = [op |-> "call_tool", name |-> tool_name,
                       headers |-> headers, produced |-> ""]
        /\ result' = on_call_tool(tool_filter, tool_manager, mounted_tools,
                                  config_args, headers, environ, tool_name)
    /\ UNCHANGED <<config_args, environ, tool_manager, mounted_tools, tool_filter,
                   calls, last_mode, process_vars>>

StandardNext == StandardListTools \/ StandardCallTool \/ EndRequest

StandardSpec == StandardInit /\ [][StandardNext]_vars

----------------------------------------------------------------------------
(* Several filters: one ToolFilterMiddleware per filter, added to the app  *)
(* one after the other.  The call_next of a middleware is the middleware   *)
(* added after it, and the last one's call_next is the app's own listing.  *)

\* the chains of middlewares an app can have from the two standard filters
FilterChains ==
    {<<>>, <<"readonly_mode_filter">>, <<"no_destructive_tools_filter">>,
     <<"readonly_mode_filter", "no_destructive_tools_filter">>,
     <<"no_destructive_tools_filter", "readonly_mode_filter">>}

\* requests that set none, one or both flags, in either order
ChainFlagValues == {"0", "true"}
ChainHeaderDicts ==
    {<<>>}
    \cup {<<[name |-> n, value |-> v]>> :
            n \in {HEADER_READONLY_MODE, HEADER_NO_DESTRUCTIVE_TOOLS}, v \in ChainFlagValues}
    \cup {h \in {<<[name |-> n, value |-> v], [name |-> m, value |-> w]>> :
                    n \in {HEADER_READONLY_MODE, HEADER_NO_DESTRUCTIVE_TOOLS},
                    m \in {HEADER_READONLY_MODE, HEADER_NO_DESTRUCTIVE_TOOLS},
                    v \in ChainFlagValues, w \in ChainFlagValues} :
            DistinctNames(h)}

\* what the app's own list handler returns, as a middleware result
ListHandler(manager, mounted) ==
    [kind |-> "return", tools |-> DownstreamTools(manager, mounted), trace |-> <<"call_next">>]

\* faulty variant: every middleware filters the app's own listing instead of
\* what call_next returns, so the first middleware alone decides
ListThroughChain_first_decides(filters, manager, mounted, args, headers, env) ==
    IF filters = <<>> THEN ListHandler(manager, mounted)
    ELSE on_list_tools(Head(filters), manager, mounted, args, headers, env)

\* a list request through the chain: each on_list_tools filters what its
\* call_next returned; an exception of a filter propagates
RECURSIVE ListThroughChain(_, _, _, _, _, _)
ListThroughChain(filters, manager, mounted, args, headers, env) ==
    IF filters = <<>> THEN ListHandler(manager, mounted)
    ELSE LET next == ListThroughChain(Tail(filters), manager, mounted, args, headers, env)
         IN  IF next.kind # "return" THEN next
             ELSE on_list_tools(Head(filters), NoToolManager, next.tools, args, headers, env)

ChainInit ==
    /\ config_args = <<READONLY_MODE_CONFIG_ARG, NO_DESTRUCTIVE_TOOLS_CONFIG_ARG>>
    /\ environ \in StandardEnvironments
    /\ \E place \in [ToolNames -> {"local", "mounted"}],
          ann \in [ToolNames -> HintedAnnotations] :
        /\ tool_manager = Some(RegisteredTools(place, ann))
        /\ mounted_tools = MountedTools(place, ann)
    /\ tool_filter \in FilterChains
    /\ request = NoRequest
    /\ result = NoResult
    /\ calls = NoCalls
    /\ last_mode = NoStr
    /\ ProcessIdle

\* a list-tools request passes through the chain of middlewares
ChainListTools ==
    /\ request.op = "none"
    /\ \E headers \in ChainHeaderDicts :
        /\ request' = [op |-> "list_tools", name |-> "", headers |-> headers, produced |-> ""]
        /\ result' = ListThroughChain(tool_filter, tool_manager, mounted_tools,
                                      config_args, headers, environ)
    /\ UNCHANGED <<config_args, environ, tool_manager, mounted_tools, tool_filter,
                   calls, last_mode, process_vars>>

ChainNext == ChainListTools \/ EndRequest

ChainSpec == ChainInit /\ [][ChainNext]_vars

----------------------------------------------------------------------------
(* server.py: mcp_server, the server-info resource and _get_git_sha.       *)
(* A dict is a function from its keys to its values.  Dicts are objects:   *)
(* server_config.objects holds the contents of each, and the caller of     *)
(* mcp_server and config.advertised_properties hold references to them.    *)

EmptyDict == <<>>

\* what the caller passes as advertised_properties: None, or a dict
AdvertisedArgs ==
    {[some |-> FALSE, val |-> EmptyDict]}
    \cup {Some(d) : d \in {EmptyDict,
                           "docs_url" :> "https://docs",
                           "name" :> "renamed",
                           "docs_url" :> "https://docs" @@ "mcp_modules" :> <<"pinned">>}}

\* auto_discover_assets: False, True (modules found next to the caller) or
\* a callable, with the module names that discovery yields
AutoDiscover ==
    {[kind |-> "False", modules |-> <<>>]}
    \cup {[kind |-> k, modules |-> m] :
            k \in {"True", "callable"}, m \in {<<>>, <<"github">>, <<"github", "jira">>}}

PackageNames == {NoStr, Some("my-package")}

\* mcp_server(name, package_name=..., advertised_properties=...,
\* auto_discover_assets=...): the configuration it leaves on the app
mcp_server(package_name, advertised_properties, auto_discover_assets) ==
    LET passed_dict == advertised_properties.some
        \* `advertised_properties or {}`: the caller's dict unless it is None or empty
        same_object == passed_dict /\ advertised_properties.val # EmptyDict
        ref == IF same_object THEN "caller" ELSE "new"
        objects == (IF passed_dict THEN "caller" :> advertised_properties.val ELSE <<>>)
                   @@ (IF same_object THEN <<>> ELSE "new" :> EmptyDict)
        mcp_modules == auto_discover_assets.modules
    IN  [built |-> TRUE,
         name |-> "test-server",
         package_name |-> package_name,
         advertised_properties |-> ref,
         caller |-> IF passed_dict THEN Some("caller") ELSE NoStr,
         objects |-> IF auto_discover_assets.kind # "False" /\ mcp_modules # <<>>
                     THEN [objects EXCEPT ![ref] = ("mcp_modules" :> mcp_modules) @@ @]
                     ELSE objects]

\* what `git rev-parse --short HEAD` gives when it is run: a revision, or
\* None when the command fails or times out
GitOutcomes == {Some("abc1234"), Some("def5678"), NoStr}

\* faulty variant: no lru_cache, git is run by every call
_get_git_sha_uncached(cache, outcome) ==
    [value |-> outcome, cache |-> cache, ran |-> TRUE]

\* _get_git_sha under lru_cache(maxsize=1): the value, the cache afterwards,
\* and whether the command was run
_get_git_sha(cache, outcome) ==
    IF cache.filled
    THEN [value |-> cache.val, cache |-> cache, ran |-> FALSE]
    ELSE [value |-> outcome, cache |-> [filled |-> TRUE, val |-> outcome], ran |-> TRUE]

\* the dict server_info returns
server_info(config, git_sha) ==
    LET info == "name" :> config.name
                @@ "fastmcp_version" :> Some("2.0")
                @@ "git_sha" :> git_sha
        package == IF TruthyStr(config.package_name)
                   THEN "package_name" :> config.package_name.val @@ "version" :> "1.0.0"
                   ELSE <<>>
    IN  config.objects[config.advertised_properties] @@ package @@ info

InfoInit ==
    /\ config_args = <<>>
    /\ environ \in Environments
    /\ tool_manager = NoToolManager
    /\ mounted_tools = <<>>
    /\ tool_filter = "none"
    /\ request = NoRequest
    /\ result = NoResult
    /\ calls = NoCalls
    /\ last_mode = NoStr
    /\ ProcessIdle

\* the program calls mcp_server; the request keeps what the caller's dict
\* held when it was passed
McpServer ==
    /\ request.op = "none"
    /\ ~server_config.built
    /\ \E package_name \in PackageNames, advertised_properties \in AdvertisedArgs,
          auto_discover_assets \in AutoDiscover :
        /\ request' = [op |-> "mcp_server", name |-> "", headers |-> <<>>, produced |-> "",
                       advertised_properties |-> advertised_properties,
                       auto_discover_assets |-> auto_discover_assets]
        /\ server_config' = mcp_server(package_name, advertised_properties,
                                       auto_discover_assets)
    /\ result' = [kind |-> "return", value |-> "", trace |-> <<>>]
    /\ UNCHANGED <<config_args, environ, tool_manager, mounted_tools, tool_filter, calls,
                   last_mode, git_cache, git_runs, server_proc, test_run,
                   registered_tools, app_tools>>

\* a client reads the server-info resource
ServerInfo ==
    /\ request.op = "none"
    /\ server_config.built
    /\ git_cache.filled \/ git_runs < MaxGitRuns
    /\ \E outcome \in (IF git_cache.filled THEN {NoStr} ELSE GitOutcomes) :
        LET sha == _get_git_sha(git_cache, outcome)
        IN  /\ git_cache' = sha.cache
            /\ git_runs' = IF sha.ran THEN git_runs + 1 ELSE git_runs
            /\ result' = [kind |-> "return", value |-> "",
                          trace |-> IF sha.ran THEN <<"subprocess.run">> ELSE <<"lru_cache">>,
                          info |-> server_info(server_config, sha.value)]
    /\ request' = [op |-> "server_info", name |-> "", headers |-> <<>>, produced |-> ""]
    /\ UNCHANGED <<config_args, environ, tool_manager, mounted_tools, tool_filter, calls,
                   last_mode, server_proc, test_run, registered_tools, app_tools,
                   server_config>>

InfoNext == McpServer \/ ServerInfo \/ EndRequest

InfoSpec == InfoInit /\ [][InfoNext]_vars

----------------------------------------------------------------------------
(* utils/testing: run_http_tool_test (a subprocess serves) and             *)
(* run_http_tool_test_with_app (a daemon thread of this process serves).   *)
(* server_proc is the server that was started, with the calls made on its  *)
(* Popen object; test_run is the position of the test function.  Timeouts  *)
(* are outcomes: the server answers within SERVER_STARTUP_TIMEOUT or not,  *)
(* the process exits within SERVER_SHUTDOWN_TIMEOUT or not.                *)

\* faulty variant: no kill after the shutdown timeout
terminate_and_wait_no_kill(proc, exits_in_time) ==
    LET sent == [proc EXCEPT !.log = @ \o <<"terminate">>]
    IN  IF proc.state = "exited"
        THEN [sent EXCEPT !.log = @ \o <<"wait">>]
        ELSE IF exits_in_time
        THEN [sent EXCEPT !.state = "exited", !.exited_by = "SIGTERM", !.log = @ \o <<"wait">>]
        ELSE [sent EXCEPT !.log = @ \o <<"wait">>]

\* the finally block of run_http_tool_test: proc.terminate();
\* proc.wait(timeout=SERVER_SHUTDOWN_TIMEOUT); on TimeoutExpired proc.kill(); proc.wait()
terminate_and_wait(proc, exits_in_time) ==
    LET sent == [proc EXCEPT !.log = @ \o <<"terminate">>]
    IN  IF proc.state = "exited"
        THEN [sent EXCEPT !.log = @ \o <<"wait">>]
        ELSE IF exits_in_time
        THEN [sent EXCEPT !.state = "exited", !.exited_by = "SIGTERM", !.log = @ \o <<"wait">>]
        ELSE [sent EXCEPT !.state = "exited", !.exited_by = "SIGKILL",
                          !.log = @ \o <<"wait", "kill", "wait">>]

HarnessInit ==
    /\ config_args = <<>>
    /\ environ \in Environments
    /\ tool_manager = NoToolManager
    /\ mounted_tools = <<>>
    /\ tool_filter = "none"
    /\ request = NoRequest
    /\ result = NoResult
    /\ calls = NoCalls
    /\ last_mode = NoStr
    /\ ProcessIdle

HarnessFrame ==
    UNCHANGED <<config_args, environ, tool_manager, mounted_tools, tool_filter, request,
                result, calls, last_mode, git_cache, git_runs, registered_tools, app_tools,
                server_config>>

\* run_http_tool_test up to its try: the server command is spawned with
\* MCP_HTTP_PORT in its environment
RunHttpToolTest ==
    /\ test_run.pc = "none"
    /\ \E tool_name \in {NoStr, Some(""), Some("echo")} :
        test_run' = [pc |-> "wait_for_server", fn |-> "run_http_tool_test",
                     tool_name |-> tool_name, client |-> <<>>,
                     outcome |-> [kind |-> "none", code |-> 0], os_environ_port |-> FALSE]
    /\ server_proc' = [state |-> "running", kind |-> "subprocess", exited_by |-> "",
                       log |-> <<>>]
    /\ HarnessFrame

\* run_http_tool_test_with_app up to its try: MCP_HTTP_PORT is set in this
\* process's environment and a daemon thread runs uvicorn on the app
RunHttpToolTestWithApp ==
    /\ test_run.pc = "none"
    /\ \E tool_name \in {NoStr, Some(""), Some("echo")} :
        test_run' = [pc |-> "wait_for_server", fn |-> "run_http_tool_test_with_app",
                     tool_name |-> tool_name, client |-> <<>>,
                     outcome |-> [kind |-> "none", code |-> 0], os_environ_port |-> TRUE]
    /\ server_proc' = [state |-> "running", kind |-> "thread", exited_by |-> "",
                       log |-> <<>>]
    /\ HarnessFrame

\* `if not await wait_for_server(url): return 1`: the server answers in
\* time, or does not (still starting, or it has ended with an error)
WaitForServer ==
    /\ test_run.pc = "wait_for_server"
    /\ \E answered \in BOOLEAN, ended \in BOOLEAN :
        /\ ~(answered /\ ended)
        /\ test_run' = IF answered
                       THEN [test_run EXCEPT !.pc = "client"]
                       ELSE [test_run EXCEPT !.pc = "finally",
                                             !.outcome = [kind |-> "return", code |-> 1]]
        /\ server_proc' = IF ended
                          THEN [server_proc EXCEPT !.state = "exited", !.exited_by = "itself"]
                          ELSE server_proc
    /\ HarnessFrame

\* `async with Client(url) as client`: list_tools, call_tool when tool_name
\* is truthy, `return 0`; any of the calls may raise, with the server gone or not
ClientSession ==
    /\ test_run.pc = "client"
    /\ \E raised_in \in {"", "list_tools", "call_tool"}, ended \in BOOLEAN :
        /\ raised_in = "call_tool" => TruthyStr(test_run.tool_name)
        /\ ended => raised_in # ""
        /\ test_run' = [test_run EXCEPT
                            !.pc = "finally",
                            !.client = IF TruthyStr(test_run.tool_name)
                                          /\ raised_in # "list_tools"
                                       THEN <<"list_tools", "call_tool">>
                                       ELSE <<"list_tools">>,
                            !.outcome = IF raised_in = ""
                                        THEN [kind |-> "return", code |-> 0]
                                        ELSE [kind |-> "raise", code |-> 0]]
        /\ server_proc' = IF ended
                          THEN [server_proc EXCEPT !.state = "exited", !.exited_by = "itself"]
                          ELSE server_proc
    /\ HarnessFrame

\* the finally block, then the pending return or exception leaves the
\* function; run_http_tool_test_with_app has `finally: pass`
Finally ==
    /\ test_run.pc = "finally"
    /\ test_run' = [test_run EXCEPT !.pc = "returned"]
    /\ IF test_run.fn = "run_http_tool_test"
       THEN \E exits_in_time \in BOOLEAN :
                server_proc' = terminate_and_wait(server_proc, exits_in_time)
       ELSE server_proc' = server_proc
    /\ HarnessFrame

HarnessNext ==
    RunHttpToolTest \/ RunHttpToolTestWithApp \/ WaitForServer \/ ClientSession \/ Finally

HarnessSpec == HarnessInit /\ [][HarnessNext]_vars

----------------------------------------------------------------------------
(* registration.py: register_mcp_tools over the tools the mcp_tool         *)
(* decorator collected.  registered_tools is _REGISTERED_TOOLS in          *)
(* decoration order; app_tools is the calls of app.tool made on the app    *)
(* that register_mcp_tools was given.  A module path is the sequence of    *)
(* its dotted components.  exclude_args reaches app.tool as list(set): a   *)
(* list without repetitions in no particular order, modelled as the set.   *)

NoArgs == [some |-> FALSE, val |-> {}]

\* decorators.py is not part of the sources; the docstring of
\* _register_mcp_callables gives the two forms: a simple name ("github") or
\* a full module path ("my_package.mcp.github"), both standing for "github"
_normalize_mcp_module(mcp_module) == mcp_module[Len(mcp_module)]

\* functions under @mcp_tool: name, parameters of the signature, and the
\* annotations with the module the decorator inferred
DecoratedTools ==
    {[func |-> "list_repos", params |-> {"owner", "token"},
      annotations |-> [mcp_module |-> "github", readOnlyHint |-> TRUE]],
     [func |-> "delete_repo", params |-> {"owner"},
      annotations |-> [mcp_module |-> "github", readOnlyHint |-> FALSE]],
     [func |-> "get_issue", params |-> {},
      annotations |-> [mcp_module |-> "jira", readOnlyHint |-> TRUE]],
     [func |-> "close_issue", params |-> {"token"},
      annotations |-> [mcp_module |-> "jira", readOnlyHint |-> FALSE]]}

\* tool_filter(callable_fn, annotations) of the callers modelled: the
\* docstring's only_readonly, and one that refuses every tool
ToolFilterAccepts(tool_filter_fn, tool) ==
    CASE tool_filter_fn = "only_readonly" -> tool.annotations.readOnlyHint
      [] tool_filter_fn = "refuse_all" -> FALSE

\* arg_exclusion_filter(callable_fn, annotations) of the callers modelled:
\* None, an empty list, or a list of names for some tools and None for the others
DynamicExclusions(arg_exclusion_filter, tool) ==
    CASE arg_exclusion_filter = "always_None" -> NoArgs
      [] arg_exclusion_filter = "hide_owner_of_readonly" ->
            IF tool.annotations.readOnlyHint
            THEN [some |-> TRUE, val |-> {"owner", "session"}]
            ELSE NoArgs
      [] arg_exclusion_filter = "always_empty" -> [some |-> TRUE, val |-> {}]

\* faulty variant: the names are not restricted to the parameters
_register_fn_unrestricted(tool, tool_filter_fn, exclude_args, arg_exclusion_filter) ==
    IF tool_filter_fn # "None" /\ ~ToolFilterAccepts(tool_filter_fn, tool)
    THEN <<>>
    ELSE LET static == IF exclude_args.some THEN exclude_args.val ELSE {}
             dynamic_exclusions ==
                 IF arg_exclusion_filter # "None"
                 THEN DynamicExclusions(arg_exclusion_filter, tool)
                 ELSE NoArgs
             excluded_args_set == static \cup dynamic_exclusions.val
         IN  <<[func |-> tool.func,
                annotations |-> tool.annotations,
                exclude_args |-> IF excluded_args_set # {}
                                 THEN [some |-> TRUE, val |-> excluded_args_set]
                                 ELSE NoArgs]>>

\* register_mcp_tools._register_fn: the calls of app.tool it makes for one
\* decorated tool (none or one)
_register_fn(tool, tool_filter_fn, exclude_args, arg_exclusion_filter) ==
    IF tool_filter_fn # "None" /\ ~ToolFilterAccepts(tool_filter_fn, tool)
    THEN <<>>
    ELSE LET params == tool.params
             static == IF exclude_args.some /\ exclude_args.val # {}
                       THEN {name \in exclude_args.val : name \in params}
                       ELSE {}
             dynamic_exclusions ==
                 IF arg_exclusion_filter # "None"
                 THEN DynamicExclusions(arg_exclusion_filter, tool)
                 ELSE NoArgs
             dynamic == IF dynamic_exclusions.some /\ dynamic_exclusions.val # {}
                        THEN {name \in dynamic_exclusions.val : name \in params}
                        ELSE {}
             excluded_args_set == static \cup dynamic
         IN  <<[func |-> tool.func,
                annotations |-> tool.annotations,
                exclude_args |-> IF excluded_args_set # {}
                                 THEN [some |-> TRUE, val |-> excluded_args_set]
                                 ELSE NoArgs]>>

\* faulty variant: the tools of every module are registered
_register_mcp_callables_every_module(mcp_module, resource_list, tool_filter_fn, exclude_args, arg_filter) ==
    LET RECURSIVE Each(_)
        Each(callables) ==
            IF callables = <<>> THEN <<>>
            ELSE _register_fn(Head(callables), tool_filter_fn, exclude_args, arg_filter)
                 \o Each(Tail(callables))
    IN  Each(resource_list)

\* _register_mcp_callables with register_mcp_tools' _register_fn: the
\* calls of app.tool, in the order they are made
_register_mcp_callables(mcp_module, resource_list, tool_filter_fn, exclude_args, arg_filter) ==
    LET mcp_module_str == _normalize_mcp_module(mcp_module)
        filtered_callables ==
            SelectSeq(resource_list, LAMBDA t : t.annotations.mcp_module = mcp_module_str)
        RECURSIVE Each(_)
        Each(callables) ==
            IF callables = <<>> THEN <<>>
            ELSE _register_fn(Head(callables), tool_filter_fn, exclude_args, arg_filter)
                 \o Each(Tail(callables))
    IN  Each(filtered_callables)

RegistrationInit ==
    /\ config_args = <<>>
    /\ environ = [n \in EnvVarNames |-> NoStr]
    /\ tool_manager = NoToolManager
    /\ mounted_tools = <<>>
    /\ tool_filter = "none"
    /\ request = NoRequest
    /\ result = NoResult
    /\ calls = NoCalls
    /\ last_mode = NoStr
    /\ ProcessIdle

\* a module is imported and @mcp_tool appends one more function to
\* _REGISTERED_TOOLS
McpTool ==
    /\ request.op = "none"
    /\ Len(registered_tools) < MaxTools
    /\ \E tool \in DecoratedTools : registered_tools' = Append(registered_tools, tool)
    /\ UNCHANGED <<config_args, environ, tool_manager, mounted_tools, tool_filter, request,
                   result, calls, last_mode, git_cache, git_runs, server_proc, test_run,
                   app_tools, server_config>>

\* register_mcp_tools(app, mcp_module=..., exclude_args=..., tool_filter=...,
\* arg_exclusion_filter=...) on a new app; with mcp_module None the file
\* stem of the caller ("jira" for jira.py) is taken
RegisterMcpTools ==
    /\ request.op = "none"
    /\ \E mcp_module \in {[some |-> FALSE, val |-> <<>>], Some(<<"github">>),
                          Some(<<"my_package", "mcp", "github">>), Some(<<"unknown">>)},
          tool_filter_fn \in {"None", "only_readonly", "refuse_all"},
          exclude_args \in {NoArgs, [some |-> TRUE, val |-> {}],
                            [some |-> TRUE, val |-> {"token"}],
                            [some |-> TRUE, val |-> {"token", "password"}]},
          arg_exclusion_filter \in {"None", "always_None", "always_empty",
                                    "hide_owner_of_readonly"} :
        LET module == IF mcp_module.some THEN mcp_module.val ELSE <<"jira">>
        IN  /\ request' = [op |-> "register_mcp_tools", name |-> "", headers |-> <<>>,
                           produced |-> "", mcp_module |-> module,
                           tool_filter |-> tool_filter_fn, exclude_args |-> exclude_args,
                           arg_exclusion_filter |-> arg_exclusion_filter]
            /\ app_tools' = _register_mcp_callables(module, registered_tools, tool_filter_fn,
                                                    exclude_args, arg_exclusion_filter)
    /\ result' = [kind |-> "return", value |-> "", trace |-> <<>>]
    /\ UNCHANGED <<config_args, environ, tool_manager, mounted_tools, tool_filter, calls,
                   last_mode, git_cache, git_runs, server_proc, test_run, registered_tools,
                   server_config>>

RegistrationNext == McpTool \/ RegisterMcpTools \/ EndRequest

RegistrationSpec == RegistrationInit /\ [][RegistrationNext]_vars

----------------------------------------------------------------------------
(* The middleware in front of any downstream listing: call_next may return *)
(* any sequence of tools, the same tool more than once included.           *)

ListedTools ==
    {t \in Tool : t.annotations \in {NoAnnotations, Some([readOnlyHint |-> "True"])}}

RECURSIVE ToolListsOfLen(_)
ToolListsOfLen(n) ==
    IF n = 0 THEN {<<>>}
    ELSE {Append(l, t) : l \in ToolListsOfLen(n - 1), t \in ListedTools}

ToolLists == UNION {ToolListsOfLen(n) : n \in 0..MaxTools}

ListingInit ==
    /\ config_args = <<ReadonlyModeArg>>
    /\ environ \in Environments
    /\ tool_manager = NoToolManager
    /\ mounted_tools \in ToolLists
    /\ tool_filter = "readonly_filter"
    /\ request = NoRequest
    /\ result = NoResult
    /\ calls = NoCalls
    /\ last_mode = NoStr
    /\ ProcessIdle

\* list-tools requests, one after another
ListingNext == ListTools \/ EndRequest

ListingSpec == ListingInit /\ [][ListingNext]_vars

----------------------------------------------------------------------------
(* Vocabulary of the properties below, read off the request and the        *)
(* configuration in the state (not off the resolver's operators).          *)

\* a resolve_config call for a registered name has been served
Resolved ==
    /\ request.op = "resolve_config"
    /\ \E i \in 1..Len(config_args) : config_args[i].name = request.name

\* the config arg that call resolves
TheArg == config_args[CHOOSE i \in 1..Len(config_args) : config_args[i].name = request.name]

\* the lower-cased form of every header name in play
LowerName == [n \in HeaderNames \cup {HeaderKey} |-> Lower(n)]

\* the values of the request's headers whose name is the configured key up to case
MatchingHeaders ==
    IF TheArg.http_header_key.some
    THEN SelectSeq(request.headers,
                   LAMBDA e : LowerName[e.name] = LowerName[TheArg.http_header_key.val])
    ELSE <<>>

\* the request carries the configured header / the configured variable is set
HeaderCarried == MatchingHeaders # <<>>
CarriedValue == MatchingHeaders[1].value
EnvSet == TheArg.env_var.some /\ environ[TheArg.env_var.val].some
EnvValue == environ[TheArg.env_var.val].val

\* what normalize_fn makes of a raw value (the value itself without normalize_fn)
Normalized(v) ==
    IF TheArg.normalize_fn.some THEN TheArg.normalize_fn.val[v] ELSE NormValue(v)

\* what each source yields: a value, nothing ("none"), or normalize_fn's exception
HeaderYield ==
    IF HeaderCarried /\ CarriedValue # "" THEN Normalized(CarriedValue) ELSE NormNone
EnvYield ==
    IF EnvSet /\ EnvValue # "" THEN Normalized(EnvValue) ELSE NormNone

\* the configured default: the literal, or what the callable returned
HasDefault == TheArg.default.kind # "none"
DefaultValue ==
    IF TheArg.default.kind = "callable" THEN request.produced ELSE TheArg.default.val

Returned(v) == result.kind = "return" /\ result.value = v
Consulted(ev) == \E i \in 1..Len(result.trace) : result.trace[i] = ev

----------------------------------------------------------------------------
(* C1 *)

\* the listing on_list_tools produces under the context of the request in the state
ListingUnderRequest ==
    on_list_tools(tool_filter, tool_manager, mounted_tools,
                  config_args, request.headers, environ)

\* the called name is a tool the server offers / is in the listing under the
\* request's context
CalledToolOffered ==
    LET tools == DownstreamTools(tool_manager, mounted_tools)
    IN  \E i \in 1..Len(tools) : tools[i].name = request.name
CalledToolListed ==
    \E i \in 1..Len(ListingUnderRequest.tools) :
        ListingUnderRequest.tools[i].name = request.name

\* the call was rejected by the middleware with the tool-unavailable error
RejectedUnavailable ==
    result.kind = "ValueError" /\ result.value = UnavailableMessage(request.name)

\* C1: call/list agreement: for every tool the server offers and every request
\* context, a tool the filter omits from the listing under that context is
\* rejected with the tool-unavailable error when called under the same
\* context, and a tool the filter leaves in the listing is not rejected by the
\* middleware.
C1_CallListAgreement ==
    (request.op = "call_tool" /\ CalledToolOffered /\ ListingUnderRequest.kind = "return")
    => /\ ~CalledToolListed => RejectedUnavailable
       /\ CalledToolListed => ~RejectedUnavailable

----------------------------------------------------------------------------
(* C2 *)

\* C2 as claimed: whenever the request carries the configured header and the
\* configured environment variable is set, resolve_config returns the header
\* value.
C2_HeaderPrecedence_AsClaimed ==
    (Resolved /\ HeaderCarried /\ EnvSet) => Returned(CarriedValue)

\* C2 (amended): when the request carries the configured header with a
\* non-empty value and the configured environment variable is set, the header
\* decides and the environment is not read: resolve_config returns the header
\* value, passed through normalize_fn if one is configured, unless normalize_fn
\* returns None or raises for the header value.
C2_HeaderPrecedence ==
    (Resolved /\ HeaderCarried /\ CarriedValue # "" /\ EnvSet
        /\ Normalized(CarriedValue).tag = "value")
    => /\ Returned(Normalized(CarriedValue).val)
       /\ ~Consulted("environ.get")
       /\ (~TheArg.normalize_fn.some => Returned(CarriedValue))

\* C2 witness: header "1" and environment "0" both present, the header value returned
C2_Witness ==
    /\ Resolved /\ HeaderCarried /\ EnvSet
    /\ ~TheArg.normalize_fn.some
    /\ CarriedValue = "1" /\ EnvValue = "0"
    /\ Returned("1")

----------------------------------------------------------------------------
(* C3 *)

\* C3 as claimed: when the header yields no value, resolve_config returns the
\* environment variable's value whenever it is set, and the default when
\* neither header nor environment yields a value.
C3_Fallback_AsClaimed ==
    (Resolved /\ HeaderYield.tag = "none")
    => /\ (EnvSet => Returned(EnvValue))
       /\ (~EnvSet /\ HasDefault => Returned(DefaultValue))

\* C3 (amended): when the header source yields no value, resolve_config returns
\* the environment variable's value, passed through normalize_fn if one is
\* configured, whenever the variable is set to a non-empty value that
\* normalize_fn neither vetoes nor raises on (regardless of any default); when
\* neither header nor environment yields a value (unset, empty or vetoed) and
\* a default is configured, it returns the default (the literal, or the result
\* of calling a callable default).
C3_Fallback ==
    (Resolved /\ HeaderYield.tag = "none")
    => /\ (EnvYield.tag = "value" => Returned(EnvYield.val))
       /\ (EnvYield.tag = "value" /\ ~TheArg.normalize_fn.some => Returned(EnvValue))
       /\ (EnvYield.tag = "none" /\ HasDefault => Returned(DefaultValue))

\* C3 witness: no header, environment "0" set, default "1" configured, "0" returned
C3_Witness ==
    /\ Resolved /\ ~HeaderCarried /\ EnvSet /\ EnvValue = "0"
    /\ TheArg.default = LiteralDefault("1")
    /\ ~TheArg.normalize_fn.some
    /\ Returned("0")

----------------------------------------------------------------------------
(* C4 *)

\* the headers with entry i renamed to n
Renamed(headers, i, n) == [headers EXCEPT ![i].name = n]

\* C4: header lookup is case-insensitive: renaming an incoming header to any
\* name that equals it after lower-casing (in particular to the exactly-cased
\* configured key) leaves the outcome of resolve_config unchanged.
C4_CaseInsensitive ==
    Resolved =>
        \A i \in 1..Len(request.headers) : \A n \in HeaderNames :
            (/\ n # request.headers[i].name
             /\ LowerName[n] = LowerName[request.headers[i].name]
             /\ DistinctNames(Renamed(request.headers, i, n)))
            => resolve_config(config_args, request.name, Renamed(request.headers, i, n),
                              environ, request.produced) = result

\* C4 witness: the key is configured as X-Ke, the request carries x-ke: "1"
\* only, and "1" is returned
C4_Witness ==
    /\ Resolved /\ TheArg.http_header_key = Some(HeaderKey)
    /\ request.headers = <<[name |-> Lower(HeaderKey), value |-> "1"]>>
    /\ Lower(HeaderKey) # HeaderKey
    /\ ~TheArg.normalize_fn.some
    /\ Returned("1")

----------------------------------------------------------------------------
(* C5 *)

\* C5: when no source yields a value and no default is configured, required
\* alone decides: ValueError if required, the empty string if not.
C5_RequiredDecides ==
    (Resolved /\ HeaderYield.tag = "none" /\ EnvYield.tag = "none" /\ ~HasDefault)
    => IF TheArg.required THEN result.kind = "ValueError" ELSE Returned("")

\* C5 witness: a required arg with header key and variable configured, neither
\* present, fails with ValueError
C5_Witness ==
    /\ Resolved /\ TheArg.required /\ ~HasDefault
    /\ TheArg.http_header_key.some /\ TheArg.env_var.some
    /\ ~HeaderCarried /\ ~EnvSet
    /\ result.kind = "ValueError"

----------------------------------------------------------------------------
(* C6 *)

\* C6: resolving a name that is not registered fails with KeyError whatever
\* the headers and the environment hold, and consults no source.
C6_UnknownName ==
    (request.op = "resolve_config"
        /\ \A i \in 1..Len(config_args) : config_args[i].name # request.name)
    => result.kind = "KeyError" /\ result.trace = <<>>

\* C6 witness: "nonexistent" is resolved while the header and the variable of
\* the registered arg are both present
C6_Witness ==
    /\ request.op = "resolve_config" /\ request.name = "nonexistent"
    /\ \E i \in 1..Len(request.headers) :
            request.headers[i] = [name |-> HeaderKey, value |-> "1"]
    /\ environ[EnvVarName] = Some("1")
    /\ config_args[1].http_header_key.some /\ config_args[1].env_var.some
    /\ result.kind = "KeyError"

----------------------------------------------------------------------------
(* C7 *)

\* the outcome the chain prescribes once header and environment are exhausted
AfterEnv ==
    IF HasDefault THEN Returned(DefaultValue)
    ELSE IF TheArg.required THEN result.kind = "ValueError"
    ELSE Returned("")

\* the outcome the chain prescribes once the header is exhausted
AfterHeader ==
    IF EnvYield.tag = "value" THEN Returned(EnvYield.val)
    ELSE IF EnvYield.tag = "raise" THEN result.kind = "NormalizeError"
    ELSE AfterEnv

NoRepeats(tr) == \A i, j \in 1..Len(tr) : i # j => tr[i] # tr[j]

\* C7: when normalize_fn returns None for the value of a source, resolution
\* goes on with the next source of the chain header -> environment -> default
\* -> required/optional (a vetoed header falls through to the environment
\* variable), and no source is consulted twice.
C7_NormalizationVeto ==
    Resolved =>
        /\ (HeaderCarried /\ CarriedValue # "" /\ Normalized(CarriedValue).tag = "none")
            => AfterHeader
        /\ (HeaderYield.tag = "none" /\ EnvSet /\ EnvValue # ""
                /\ Normalized(EnvValue).tag = "none")
            => AfterEnv
        /\ NoRepeats(result.trace)

\* C7 witness: normalize_fn vetoes the header value "0" and accepts the
\* environment value "1" as "tok", which is returned
C7_Witness ==
    /\ Resolved /\ TheArg.normalize_fn.some
    /\ HeaderCarried /\ CarriedValue = "0" /\ Normalized("0").tag = "none"
    /\ EnvSet /\ EnvValue = "1" /\ Normalized("1") = NormValue("tok")
    /\ Returned("tok")
    /\ result.trace = <<"get_http_headers", "normalize_fn(header)",
                        "environ.get", "normalize_fn(env)">>

----------------------------------------------------------------------------
(* C8 *)

\* C8: when normalize_fn raises on the value of a source, resolve_config
\* propagates the error and reads no later source: no environment or default
\* after a header failure, no default after an environment failure, never
\* ValueError or a returned string.
C8_NormalizationFailure ==
    Resolved =>
        /\ HeaderYield.tag = "raise"
            => /\ result.kind = "NormalizeError"
               /\ ~Consulted("environ.get")
               /\ ~Consulted("default") /\ ~Consulted("default()")
        /\ (HeaderYield.tag = "none" /\ EnvYield.tag = "raise")
            => /\ result.kind = "NormalizeError"
               /\ ~Consulted("default") /\ ~Consulted("default()")

\* C8 witness: normalize_fn raises on the header value while the environment
\* variable holds a value it accepts and a default is configured
C8_Witness ==
    /\ Resolved /\ HeaderYield.tag = "raise"
    /\ EnvYield.tag = "value" /\ HasDefault
    /\ result.kind = "NormalizeError"

----------------------------------------------------------------------------
(* C9 *)

\* C9: defaults are not passed through normalize_fn: whenever resolution ends
\* at the default, the value returned is exactly the default (the literal, or
\* what the callable returned), whatever normalize_fn would do with it.
C9_DefaultNotNormalized ==
    Resolved =>
        /\ (HeaderYield.tag = "none" /\ EnvYield.tag = "none" /\ HasDefault)
            => Returned(DefaultValue)
        /\ (Consulted("default") \/ Consulted("default()"))
            => Returned(DefaultValue)

\* C9 witness: resolution ends at the literal default "1", which is returned
\* although normalize_fn would not return "1" for it
C9_Witness ==
    /\ Resolved /\ TheArg.normalize_fn.some
    /\ TheArg.default = LiteralDefault("1")
    /\ Normalized("1") # NormValue("1")
    /\ HeaderYield.tag = "none" /\ EnvYield.tag = "none"
    /\ Returned("1")

----------------------------------------------------------------------------
(* C10 *)

\* C10 as claimed: the empty string is returned only when required is false
\* and neither header, environment nor default yielded a value.
C10_EmptyOnlyWhenOptional_AsClaimed ==
    (Resolved /\ Returned(""))
    => /\ ~TheArg.required
       /\ HeaderYield.tag = "none" /\ EnvYield.tag = "none" /\ ~HasDefault

\* C10 (amended): a successful resolution returns the empty string only as
\* the absent-but-optional signal (required false; header, environment and
\* default yield nothing), or when the default it ends at is itself the empty
\* string, or when normalize_fn returned the empty string for the value of the
\* source it stops at.  An empty header or environment value is never
\* returned: without normalize_fn a value taken from the header or the
\* environment is non-empty.
C10_EmptyOnlyWhenOptional ==
    (Resolved /\ Returned(""))
    => \/ /\ ~TheArg.required
          /\ HeaderYield.tag = "none" /\ EnvYield.tag = "none" /\ ~HasDefault
       \/ /\ HeaderYield.tag = "none" /\ EnvYield.tag = "none"
          /\ HasDefault /\ DefaultValue = ""
       \/ /\ TheArg.normalize_fn.some
          /\ \/ HeaderYield = NormValue("")
             \/ HeaderYield.tag = "none" /\ EnvYield = NormValue("")

\* C10 witness: a required arg whose header is present but empty and whose
\* default is the empty string resolves to the empty string
C10_Witness ==
    /\ Resolved /\ TheArg.required
    /\ HeaderCarried /\ CarriedValue = ""
    /\ TheArg.default = LiteralDefault("")
    /\ Returned("")


----------------------------------------------------------------------------
(* C11 *)

\* the sources the resolved config arg has, as the message is to list them
ConfiguredSources ==
    IF TheArg.http_header_key.some /\ TheArg.env_var.some
    THEN "HTTP header '" \o Str(TheArg.http_header_key.val)
            \o "' or environment variable '" \o TheArg.env_var.val \o "'"
    ELSE IF TheArg.http_header_key.some
    THEN "HTTP header '" \o Str(TheArg.http_header_key.val) \o "'"
    ELSE IF TheArg.env_var.some
    THEN "environment variable '" \o TheArg.env_var.val \o "'"
    ELSE "no sources configured"

\* C11: the message of the missing-required-value error is made of the config
\* arg's name and of the names of exactly the sources it has (the header name
\* when a header key is configured, the variable name when an environment
\* variable is configured) and of nothing else: it is a function of the config
\* arg alone, so no value read from a header, the environment or the default
\* is in it, and any two failing resolutions of the same config arg, whatever
\* the request and the environment hold, carry the same message.
C11_MessageNamesSourcesOnly ==
    (Resolved /\ result.kind = "ValueError") =>
        result.value = "Required config '" \o request.name \o "' not found. Set "
                           \o ConfiguredSources \o "."

\* a required value is missing although the header and the variable both
\* carried a value (normalize_fn vetoed them), and only the header is listed
C11_Witness ==
    /\ Resolved
    /\ result.kind = "ValueError"
    /\ HeaderCarried /\ CarriedValue # ""
    /\ EnvSet /\ EnvValue # ""
    /\ TheArg.http_header_key.some
    /\ result.value = "Required config 'api_key' not found. Set HTTP header 'X-Ke' or environment variable 'API_KEY'."


----------------------------------------------------------------------------
(* C12, C13 *)

\* call c has returned or raised
Done(c) == calls # NoCalls /\ calls[c].pc = "done"

\* C12: resolution is deterministic and leaves nothing behind: two calls that
\* resolve the same name under request headers with identical contents, in
\* the same environment, end with the identical outcome (the same value, or
\* the same exception with the same message, after consulting the same
\* sources), for every config arg whose default is not a callable producer.
C12_Deterministic ==
    \A c, d \in CallIds :
        (/\ Done(c) /\ Done(d)
         /\ calls[c].name = calls[d].name
         /\ calls[c].headers = calls[d].headers
         /\ ~HasCallableDefault(config_args))
        => calls[c].result = calls[d].result

\* two calls with the same contents both took their value from the environment
C12_Witness ==
    /\ Done("a") /\ Done("b")
    /\ calls["a"].name = calls["b"].name
    /\ calls["a"].headers = calls["b"].headers
    /\ calls["a"].headers # <<>>
    /\ ~HasCallableDefault(config_args)
    /\ calls["a"].result.kind = "return"
    /\ calls["a"].result = calls["b"].result
    /\ \E i \in 1..Len(calls["a"].result.trace) : calls["a"].result.trace[i] = "environ.get"

\* C13: concurrent requests do not influence each other: under every
\* interleaving of the calls' steps, the outcome of each call is the outcome
\* of resolving that name alone, in one piece, against that request's own
\* headers and the process environment.
C13_Isolation ==
    \A c \in CallIds :
        Done(c) => calls[c].result = resolve_config(config_args, calls[c].name,
                                                    calls[c].headers, environ,
                                                    calls[c].produced)

\* two requests carrying different values of the same header were served at
\* the same time, and each got its own value
C13_Witness ==
    /\ Done("a") /\ Done("b")
    /\ calls["a"].headers # <<>> /\ calls["b"].headers # <<>>
    /\ calls["a"].headers[1].value = "0" /\ calls["b"].headers[1].value = "1"
    /\ calls["a"].result = Return("0", <<"get_http_headers">>)
    /\ calls["b"].result = Return("1", <<"get_http_headers">>)


----------------------------------------------------------------------------
(* C14 *)

\* C14: config-arg names are unique within a server's config set: no two
\* entries of config_args share a name, and the by-name lookup built by
\* __post_init__ has exactly one entry per config arg.
C14_UniqueNames ==
    /\ \A i, j \in 1..Len(config_args) :
            i # j => config_args[i].name # config_args[j].name
    /\ Cardinality(DOMAIN PostInit(config_args)) = Len(config_args)


----------------------------------------------------------------------------
(* C15 *)

\* what the downstream handler returned for the list request
ListInput == DownstreamTools(tool_manager, mounted_tools)

\* the filter's verdict on a tool under the request's context is truthy
Visible(t) ==
    FilterTruthy(ApplyFilter(tool_filter, t, config_args, request.headers, environ))

\* the positions of the downstream listing whose tool the filter lets through
Kept == {i \in 1..Len(ListInput) : Visible(ListInput[i])}

\* the k-th of a set of positions, in the listing's order
Kth(positions, k) ==
    CHOOSE i \in positions : Cardinality({j \in positions : j < i}) = k - 1

\* C15: the listing hook returns exactly the tools of the downstream listing
\* for which the filter returns true, nothing else: each as often as it
\* occurred in the downstream listing and in the same relative order.
C15_FilteredSubsequence ==
    (request.op = "list_tools" /\ result.kind = "return")
    => LET kept == Kept
           input == ListInput
       IN  /\ Len(result.tools) = Cardinality(kept)
           /\ \A k \in 1..Len(result.tools) : result.tools[k] = input[Kth(kept, k)]

\* of three listed tools the middle one is hidden, and the two others, which
\* differ, come back in their order
C15_Witness ==
    /\ request.op = "list_tools" /\ result.kind = "return"
    /\ Len(ListInput) = 3
    /\ ~Visible(ListInput[2])
    /\ ListInput[1] # ListInput[3]
    /\ result.tools = <<ListInput[1], ListInput[3]>>


----------------------------------------------------------------------------
(* C16, C17 *)

\* the called name is a tool the server offers and the filter's verdict on
\* it under the request's context is not truthy
CalledToolHidden ==
    \E i \in 1..Len(ListInput) :
        ListInput[i].name = request.name /\ ~Visible(ListInput[i])

\* C16: a call to a tool hidden by the filter fails with ValueError, and the
\* message names the tool, says that it is unavailable under the current
\* session configuration and is made of the tool name alone, so that any two
\* contexts hiding the same tool give the identical error.
C16_HiddenCallError ==
    (request.op = "call_tool" /\ CalledToolHidden)
    => /\ result.kind = "ValueError"
       /\ result.value = "Tool '" \o request.name \o "' is not available. "
            \o "It may be restricted based on your current session configuration."

\* C17: in every handling of a call-tool request the filter decision comes
\* before call_next (call_next is never followed by a filter decision), and
\* when the filter's verdict on the called tool is "not visible" call_next is
\* not invoked at all, so a hidden tool is never validated or executed.
C17_FilterBeforeDownstream ==
    request.op = "call_tool"
    => /\ \A i, j \in 1..Len(result.trace) :
            (result.trace[i] = "call_next" /\ result.trace[j] = "filter") => j < i
       /\ CalledToolHidden =>
            \A i \in 1..Len(result.trace) : result.trace[i] # "call_next"


----------------------------------------------------------------------------
(* C18 *)

\* the readonly mode that the configuration of the request being served gives
RequestMode ==
    resolve_config(config_args, "readonly_mode", request.headers, environ, "").value

\* what readonly_filter decides for a tool when it looks at that mode only
FreshlyVisible(t) ==
    RequestMode = "1" => (t.annotations.some /\ t.annotations.val.readOnlyHint = "True")

\* the tool of the app's own registry that the call names, if there is one
CalledRegistered ==
    tool_manager.some
    /\ \E i \in 1..Len(tool_manager.val) : tool_manager.val[i].key = request.name
CalledRegisteredTool ==
    to_mcp_tool(tool_manager.val[CHOOSE i \in 1..Len(tool_manager.val) :
                                    tool_manager.val[i].key = request.name])

\* C18: filter decisions are computed fresh for every request and never
\* cached: whatever request was served before and whatever mode it had, the
\* listing holds the downstream tools that the filter lets through under the
\* configuration of the request being served, and a call is rejected exactly
\* when the filter, evaluated on the called tool under the configuration of
\* the request being served, says no.
C18_FreshDecisions ==
    /\ request.op = "list_tools" =>
            result.tools = SelectSeq(ListInput, FreshlyVisible)
    /\ (request.op = "call_tool" /\ CalledRegistered) =>
            (result.kind = "ValueError" <=> ~FreshlyVisible(CalledRegisteredTool))

\* the request before had readonly mode on; this one has it off and lists a
\* tool without hints
C18_Witness ==
    /\ last_mode = Some("1")
    /\ request.op = "list_tools"
    /\ RequestMode = "0"
    /\ \E i \in 1..Len(result.tools) : ~result.tools[i].annotations.some


----------------------------------------------------------------------------
(* C19, C20 *)

\* what a flag resolves to under the configuration of the request being served
FlagValue(name) == resolve_config(config_args, name, request.headers, environ, "").value

ReadOnlyTool(t) == t.annotations.some /\ t.annotations.val.readOnlyHint = "True"
DestructiveTool(t) == t.annotations.some /\ t.annotations.val.destructiveHint = "True"

\* the tool that the call names, as the server offers it
CalledTool == ListInput[CHOOSE i \in 1..Len(ListInput) : ListInput[i].name = request.name]

\* C19: readonly-mode filter: when readonly_mode resolves to "1" or "true",
\* the listing holds exactly the tools whose readOnlyHint is True, a call to
\* any other tool (one without hints included) is rejected with the
\* tool-unavailable error, and a call to a read-only tool goes through; when
\* readonly_mode resolves to anything else, every tool is listed and no call
\* is rejected.
C19_ReadonlyMode ==
    tool_filter = "readonly_mode_filter" =>
        IF FlagValue("readonly_mode") \in {"1", "true"}
        THEN /\ request.op = "list_tools" =>
                    result.tools = SelectSeq(ListInput, ReadOnlyTool)
             /\ (request.op = "call_tool" /\ CalledToolOffered) =>
                    IF ReadOnlyTool(CalledTool) THEN result.kind = "return"
                    ELSE RejectedUnavailable
        ELSE /\ request.op = "list_tools" => result.tools = ListInput
             /\ (request.op = "call_tool" /\ CalledToolOffered) => result.kind = "return"

\* C20: no-destructive-tools filter: when no_destructive_tools resolves to
\* "1" or "true", the listing holds exactly the tools whose destructiveHint
\* is not True (tools without the hint, and tools without annotations,
\* included); when it resolves to anything else, every tool is listed.
C20_NoDestructiveTools ==
    (tool_filter = "no_destructive_tools_filter" /\ request.op = "list_tools") =>
        IF FlagValue("no_destructive_tools") \in {"1", "true"}
        THEN result.tools = SelectSeq(ListInput, LAMBDA t : ~DestructiveTool(t))
        ELSE result.tools = ListInput

\* the header turns the flag on with "true"; of a destructive tool and a tool
\* without annotations only the second is listed
C20_Witness ==
    /\ tool_filter = "no_destructive_tools_filter"
    /\ request.op = "list_tools"
    /\ request.headers = <<[name |-> HEADER_NO_DESTRUCTIVE_TOOLS, value |-> "true"]>>
    /\ Len(ListInput) = 2
    /\ DestructiveTool(ListInput[1])
    /\ ~ListInput[2].annotations.some
    /\ result.tools = <<ListInput[2]>>


----------------------------------------------------------------------------
(* C21 *)

\* a filter is one of the middlewares of the app
InChain(f) == \E i \in 1..Len(tool_filter) : tool_filter[i] = f

\* the filter is registered and its flag is on for the request being served
ReadonlyOn ==
    InChain("readonly_mode_filter") /\ FlagValue("readonly_mode") \in {"1", "true"}
NoDestructiveOn ==
    InChain("no_destructive_tools_filter")
    /\ FlagValue("no_destructive_tools") \in {"1", "true"}

\* the names of the tools of a listing
NamesOf(tools) == {tools[i].name : i \in 1..Len(tools)}

\* the chain with its middlewares in the opposite order, and without its
\* first middleware
ReversedChain == [i \in 1..Len(tool_filter) |-> tool_filter[Len(tool_filter) + 1 - i]]
ListedBy(chain) ==
    ListThroughChain(chain, tool_manager, mounted_tools, config_args,
                     request.headers, environ).tools

\* C21: filter composition is a pure AND and is order-independent: the
\* listing that comes out of the chain holds exactly the tools that every
\* registered filter whose flag is on lets through (a read-only tool under
\* readonly mode, a tool not marked destructive under no-destructive-tools),
\* whatever the order of the middlewares and of the flags in the request; the
\* chain in the opposite order lists the same, and a chain lists no tool that
\* the chain without its first, or without its last, filter does not list.
C21_PureAnd ==
    request.op = "list_tools" =>
        /\ result.tools =
                SelectSeq(ListInput,
                          LAMBDA t : /\ ReadonlyOn => ReadOnlyTool(t)
                                     /\ NoDestructiveOn => ~DestructiveTool(t))
        /\ ListedBy(ReversedChain) = result.tools
        /\ tool_filter # <<>> =>
                /\ NamesOf(result.tools) \subseteq NamesOf(ListedBy(Tail(tool_filter)))
                /\ NamesOf(result.tools) \subseteq
                        NamesOf(ListedBy(SubSeq(tool_filter, 1, Len(tool_filter) - 1)))

\* both filters are registered and both flags are on: a tool that is
\* read-only and destructive, which readonly mode alone lists, is hidden,
\* and the other tool is listed
C21_Witness ==
    /\ request.op = "list_tools"
    /\ Len(tool_filter) = 2
    /\ ReadonlyOn /\ NoDestructiveOn
    /\ Len(ListInput) = 2
    /\ ReadOnlyTool(ListInput[1]) /\ DestructiveTool(ListInput[1])
    /\ ListedBy(<<"readonly_mode_filter">>) = ListInput
    /\ result.tools = <<ListInput[2]>>


----------------------------------------------------------------------------
(* C22 *)

\* C22: the revision is read through a one-time memoized accessor: a
\* server-info request that finds no memoized result runs git, and that
\* happens once in the life of the process; every request that follows runs
\* nothing, leaves the memoized result as it is and reports it as git_sha,
\* the memoized absence of a revision included.
C22_MemoizedGitSha ==
    [][request'.op = "server_info" =>
        /\ git_runs' = 1
        /\ git_cache'.filled
        /\ result'.info["git_sha"] = git_cache'.val
        /\ git_cache.filled =>
                /\ git_cache' = git_cache
                /\ git_runs' = git_runs
                /\ result'.trace = <<"lru_cache">>]_vars

\* a request served from the memoized result reports that there is no
\* revision: git failed when the first request ran it, and was not run again
C22_Witness ==
    /\ request.op = "server_info"
    /\ result.trace = <<"lru_cache">>
    /\ git_runs = 1
    /\ result.info["git_sha"] = NoStr

----------------------------------------------------------------------------
(* C30 *)

\* C30: mcp_server does not mutate its caller's arguments: when it has
\* returned, the dict the caller passed as advertised_properties holds
\* exactly the keys and values it held when it was passed, whatever
\* auto_discover_assets yields.
C30_CallerDictUntouched ==
    (request.op = "mcp_server" /\ request.advertised_properties.some)
    => server_config.objects[server_config.caller.val] = request.advertised_properties.val


----------------------------------------------------------------------------
(* C23, C24 *)

TestReturned(fn) == test_run.pc = "returned" /\ test_run.fn = fn

\* C23: on every return path of run_http_tool_test_with_app, with exit
\* code 0 or 1, the server it started is no longer running when the
\* function returns.
C23_ServerShutDown ==
    (TestReturned("run_http_tool_test_with_app") /\ test_run.outcome.kind = "return")
    => server_proc.state = "exited"

\* C24: however run_http_tool_test leaves after the subprocess was started
\* (return 1 on startup timeout, return 0, or an exception of the client),
\* the subprocess was sent terminate and then waited for, and it has
\* exited; it was killed and waited for again exactly when it had not
\* exited within the shutdown timeout.
C24_TerminatedAndWaited ==
    TestReturned("run_http_tool_test") =>
        /\ server_proc.state = "exited"
        /\ server_proc.log = IF server_proc.exited_by = "SIGKILL"
                             THEN <<"terminate", "wait", "kill", "wait">>
                             ELSE <<"terminate", "wait">>

\* the client raised, and the subprocess had to be killed
C24_Witness ==
    /\ TestReturned("run_http_tool_test")
    /\ test_run.outcome.kind = "raise"
    /\ server_proc.exited_by = "SIGKILL"


----------------------------------------------------------------------------
(* C25, C26 *)

Registering == request.op = "register_mcp_tools"

\* the decorated tool at position i belongs to the module asked for, and
\* the tool filter, when there is one, returns true for it
Wanted(i) ==
    LET tool == registered_tools[i]
    IN  /\ tool.annotations.mcp_module = _normalize_mcp_module(request.mcp_module)
        /\ request.tool_filter # "None" => ToolFilterAccepts(request.tool_filter, tool)

\* C25: register_mcp_tools passes to app.tool exactly the decorated tools,
\* in decoration order, whose mcp_module annotation equals the normalized
\* mcp_module and for which the tool filter returns true (every tool of the
\* module when no filter is given); no other tool is registered.
C25_RegistersMatchingInOrder ==
    Registering =>
        LET wanted == {i \in 1..Len(registered_tools) : Wanted(i)}
        IN  /\ Len(app_tools) = Cardinality(wanted)
            /\ \A k \in 1..Len(app_tools) :
                    LET tool == registered_tools[Kth(wanted, k)]
                    IN  /\ app_tools[k].func = tool.func
                        /\ app_tools[k].annotations = tool.annotations

\* a full module path is given; of three decorated tools the second is of
\* another module and the third is refused by the filter
C25_Witness ==
    /\ Registering
    /\ Len(request.mcp_module) > 1
    /\ request.tool_filter = "only_readonly"
    /\ Len(registered_tools) = 3
    /\ registered_tools[2].annotations.mcp_module = "jira"
    /\ ~registered_tools[3].annotations.readOnlyHint
    /\ registered_tools[3].annotations.mcp_module = "github"
    /\ Len(app_tools) = 1

\* C26: for every tool registered by register_mcp_tools, the exclude_args
\* passed to app.tool is the union of the static exclude_args and the names
\* returned by arg_exclusion_filter, restricted to the parameters of the
\* function; it is None when that set is empty.
C26_ExcludeArgsUnion ==
    Registering =>
        \A k \in 1..Len(app_tools) :
            LET tool == CHOOSE t \in DecoratedTools : t.func = app_tools[k].func
                static == IF request.exclude_args.some THEN request.exclude_args.val ELSE {}
                dynamic == IF request.arg_exclusion_filter = "None" THEN {}
                           ELSE DynamicExclusions(request.arg_exclusion_filter, tool).val
                names == (static \cup dynamic) \cap tool.params
            IN  app_tools[k].exclude_args = IF names = {} THEN NoArgs
                                            ELSE [some |-> TRUE, val |-> names]

\* one call of app.tool gets names from both sources with a name of each
\* dropped for not being a parameter, and another call gets None: the
\* filter returned None for it and no static name is a parameter of it
C26_Witness ==
    /\ Registering
    /\ request.exclude_args.val = {"token", "password"}
    /\ request.arg_exclusion_filter = "hide_owner_of_readonly"
    /\ \E k \in 1..Len(app_tools) :
            app_tools[k].exclude_args = [some |-> TRUE, val |-> {"owner", "token"}]
    /\ \E k \in 1..Len(app_tools) :
            /\ app_tools[k].exclude_args = NoArgs
            /\ ~app_tools[k].annotations.readOnlyHint


----------------------------------------------------------------------------
(* C27 *)

\* C27: when several incoming headers match the configured header key up
\* to case, the first of them in the order of the header collection wins:
\* the call resolves exactly as it does for a request that carries that
\* header alone, whatever the later duplicates hold.
C27_FirstMatchWins ==
    (Resolved /\ Len(MatchingHeaders) > 1)
    => result = _resolve_config_arg(TheArg, <<MatchingHeaders[1]>>, environ,
                                    request.produced)

\* the first matching header is empty and a later one carries "1": the
\* value comes from the environment, not from the later duplicate
C27_Witness ==
    /\ Resolved
    /\ Len(MatchingHeaders) > 1
    /\ MatchingHeaders[1].value = ""
    /\ MatchingHeaders[2].value = "1"
    /\ EnvSet /\ EnvValue = "0"
    /\ ~TheArg.normalize_fn.some
    /\ Returned("0")


----------------------------------------------------------------------------
(* C28, C29 *)

\* how often the handling of the request invoked the downstream handler
DownstreamInvocations ==
    Cardinality({i \in 1..Len(result.trace) : result.trace[i] = "call_next"})

\* what the downstream handler makes of the request as it came in
DownstreamOutcome == DownstreamCall(tool_manager, mounted_tools, request.name, <<>>)

\* C28: when the filter does not hide the called tool, on_call_tool invokes
\* the downstream handler exactly once with the request as it came in, and
\* its outcome is the downstream handler's: the same result, or the same
\* error; the middleware rejects nothing and changes nothing itself.
C28_PassThrough ==
    (request.op = "call_tool" /\ ~CalledToolHidden)
    => /\ DownstreamInvocations = 1
       /\ result.kind = DownstreamOutcome.kind
       /\ result.value = DownstreamOutcome.value

\* readonly mode is on and the call names a tool of the app's registry that
\* the filter has looked at and let through: the tool ran
C28_Witness ==
    /\ request.op = "call_tool"
    /\ CalledRegistered
    /\ RequestMode = "1"
    /\ result.trace = <<"filter", "call_next">>
    /\ result.kind = "return"
    /\ result.value = request.name

====
